---- MODULE Spec2Model ----
(***************************************************************************)
(* UkiyoFusion backend: the asynchronous transformation pipeline           *)
(* (routes/transform.py, tasks/image_processing.py) and the gallery        *)
(* (routes/gallery.py) over the persisted records of models/__init__.py.   *)
(*                                                                         *)
(* Text values the code inspects character by character (file names,       *)
(* prompts) are tuples of one-character strings.  Floats of the form x.yz  *)
(* are integers in hundredths (strength) or tenths (guidance_scale).       *)
(***************************************************************************)
EXTENDS Integers, Sequences, FiniteSets, TLC

VARIABLES
    transformations,   \* table transformations: slot -> row or NoRow (slot = task_id)
    users,             \* table users: user -> total_transformations
    files,             \* objects held by the storage service (their URLs)
    queue,             \* messages delivered to the task queue and not yet taken
    revoked,           \* ids passed to celery.control.revoke
    exec,              \* task executions: slot -> [pc, exc, msg, ...]
    notes,             \* transformation_progress events, per task room, in order
    models,            \* DiffusionService.models of the worker (loaded model names)
    nextId,            \* uuid4 draws used so far by upload_and_transform
    gallery,           \* table gallery_items: item id -> row or NoRow
    nextItem,          \* create_gallery_item requests that got past their checks
    creating,          \* those between their checks and their insert: id -> request
    viewing,           \* view requests between their read and their counter write
    nextView,          \* counted views started so far
    nextToken,         \* share tokens drawn so far by generate_share_token
    resp,              \* the last HTTP response sent
    call,              \* a function application: [fn, args, done, result]
    storage,           \* the StorageService: [use_s3, objects, returned]
    globals            \* src/app.py: current_pipeline, current_model,
                       \* available_models

vars == <<transformations, users, files, queue, revoked, exec, notes, models,
          nextId, gallery, nextItem, creating, viewing, nextView, nextToken, resp,
          call, storage, globals>>

pipelineVars == <<transformations, users, files, queue, revoked, exec, notes,
                  models, nextId>>
galleryVars == <<gallery, nextItem, creating, viewing, nextView, nextToken>>
serviceVars == <<call, storage, globals>>

----------------------------------------------------------------------------
(* Bounds of the model *)

MaxUploads == 1      \* upload requests that get past validation
MaxItems == 2        \* create_gallery_item requests that get past their checks
MaxTokens == 2       \* share tokens ever generated
MaxViews == 3        \* counted views of a run
MaxObjects == 2      \* uploads to the storage service under check

None == "None"                 \* a null text column
Null == [none |-> TRUE]        \* a null of a column holding a structured value
NoRow == [absent |-> TRUE]     \* no row under that key
NoCall == [fn |-> "none"]      \* no function application under way

\* StorageService(): the backend chosen, the objects it holds (S3 keys or local
\* paths) and the <<url, object>> pairs its uploads have returned
\* the globals of src/app.py as the module sets them, lines 30-32
NewGlobals ==
    [current_pipeline |-> None, current_model |-> None, available_models |-> {}]

NewStorage(use_s3) == [use_s3 |-> use_s3, objects |-> {}, returned |-> {}]

Users == {"u1", "u2"}
Anonymous == "anonymous"
Slots == 1..MaxUploads
Items == 1..MaxItems
Tokens == 1..MaxTokens

----------------------------------------------------------------------------
(* Text helpers: Python's str.lower, str.strip, `in`, rsplit('.', 1) *)

UpperCase == <<"A","B","C","D","E","F","G","H","I","J","K","L","M",
               "N","O","P","Q","R","S","T","U","V","W","X","Y","Z">>
LowerCase == <<"a","b","c","d","e","f","g","h","i","j","k","l","m",
               "n","o","p","q","r","s","t","u","v","w","x","y","z">>

LowerChar(c) ==
    IF \E i \in 1..26 : UpperCase[i] = c
    THEN LowerCase[CHOOSE i \in 1..26 : UpperCase[i] = c]
    ELSE c

RECURSIVE Lower(_)
Lower(s) == IF s = <<>> THEN <<>> ELSE <<LowerChar(Head(s))>> \o Lower(Tail(s))

IsSpace(c) == c \in {" ", "\t", "\n"}

RECURSIVE LStrip(_)
LStrip(s) == IF s # <<>> /\ IsSpace(Head(s)) THEN LStrip(Tail(s)) ELSE s

RECURSIVE RStrip(_)
RStrip(s) ==
    IF s # <<>> /\ IsSpace(s[Len(s)]) THEN RStrip(SubSeq(s, 1, Len(s) - 1)) ELSE s

Strip(s) == RStrip(LStrip(s))

\* Python's `w in s` on strings
Contains(s, w) ==
    \E i \in 1..(Len(s) - Len(w) + 1) : SubSeq(s, i, i + Len(w) - 1) = w

\* filename.rsplit('.', 1)[1]: the text after the last dot
AfterLastDot(s) ==
    LET i == CHOOSE k \in 1..Len(s) :
                 s[k] = "." /\ \A j \in (k + 1)..Len(s) : s[j] # "."
    IN  SubSeq(s, i + 1, Len(s))

----------------------------------------------------------------------------
(* utils/validators.py *)

allowed_extensions ==
    { <<"p","n","g">>, <<"j","p","g">>, <<"j","p","e","g">>,
      <<"w","e","b","p">>, <<"g","i","f">> }

allowed_file(filename) ==
    IF filename = <<>> THEN FALSE
    ELSE /\ \E k \in 1..Len(filename) : filename[k] = "."
         /\ Lower(AfterLastDot(filename)) \in allowed_extensions

MAX_CONTENT_LENGTH == 16777216
MIN_IMAGE_SIZE == 64
MAX_IMAGE_SIZE == 2048
MAX_ASPECT_RATIO == 4

Max2(a, b) == IF a >= b THEN a ELSE b
Min2(a, b) == IF a <= b THEN a ELSE b

\* the read position of the stream is "start" after file.seek(0) and "inside"
\* after Image.open has read from it

\* a validation that returns without the file.seek(0) of line 58
validate_image_no_rewind(file) ==
    IF file.size > MAX_CONTENT_LENGTH THEN <<FALSE, "File size too large", "start">>
    ELSE IF file.size = 0 THEN <<FALSE, "File is empty", "start">>
    ELSE IF ~file.decodable
         THEN <<FALSE, "Invalid image file or corrupted data", "inside">>
    ELSE IF file.width < MIN_IMAGE_SIZE \/ file.height < MIN_IMAGE_SIZE
         THEN <<FALSE, "Image too small", "inside">>
    ELSE IF file.width > MAX_IMAGE_SIZE \/ file.height > MAX_IMAGE_SIZE
         THEN <<FALSE, "Image too large", "inside">>
    ELSE IF Max2(file.width, file.height)
              > MAX_ASPECT_RATIO * Min2(file.width, file.height)
         THEN <<FALSE, "Image aspect ratio too extreme", "inside">>
    ELSE <<TRUE, "Valid image", "inside">>

\* validate_image(file) -> <<is_valid, message, read position afterwards>>;
\* a file is [size, decodable, width, height]
validate_image(file) ==
    \* lines 22-31: seek to the end, tell, seek(0)
    IF file.size > MAX_CONTENT_LENGTH THEN <<FALSE, "File size too large", "start">>
    ELSE IF file.size = 0 THEN <<FALSE, "File is empty", "start">>
    \* lines 35-40: Image.open, verify, seek(0), Image.open
    ELSE IF ~file.decodable
         THEN <<FALSE, "Invalid image file or corrupted data", "inside">>
    ELSE IF file.width < MIN_IMAGE_SIZE \/ file.height < MIN_IMAGE_SIZE
         THEN <<FALSE, "Image too small", "inside">>
    ELSE IF file.width > MAX_IMAGE_SIZE \/ file.height > MAX_IMAGE_SIZE
         THEN <<FALSE, "Image too large", "inside">>
    \* max/min > 4.0 on the true quotient
    ELSE IF Max2(file.width, file.height)
              > MAX_ASPECT_RATIO * Min2(file.width, file.height)
         THEN <<FALSE, "Image aspect ratio too extreme", "inside">>
    \* line 58: seek(0)
    ELSE <<TRUE, "Valid image", "start">>

banned_words ==
    << <<"n","u","d","e">>, <<"n","a","k","e","d">>, <<"n","s","f","w">>,
       <<"p","o","r","n">>, <<"e","x","p","l","i","c","i","t">>,
       <<"s","e","x","u","a","l">>, <<"v","i","o","l","e","n","c","e">>,
       <<"g","o","r","e">>, <<"b","l","o","o","d">>, <<"d","e","a","t","h">>,
       <<"k","i","l","l">>, <<"m","u","r","d","e","r">>, <<"h","a","t","e">>,
       <<"r","a","c","i","s","t">>, <<"n","a","z","i">>,
       <<"t","e","r","r","o","r","i","s","t">> >>

DEFAULT_MAX_PROMPT == 1000

\* a denylist check on the prompt as typed, without lower()
validate_prompt_as_typed(prompt, max_length) ==
    IF prompt = <<>> \/ Strip(prompt) = <<>>
    THEN <<FALSE, "Prompt cannot be empty", None>>
    ELSE LET p == Strip(prompt)
             hits == {i \in 1..Len(banned_words) : Contains(p, banned_words[i])}
         IN  IF Len(p) > max_length THEN <<FALSE, "Prompt too long", None>>
             ELSE IF hits # {}
                  THEN <<FALSE, "Prompt contains inappropriate content",
                         banned_words[CHOOSE i \in hits : \A j \in hits : i <= j]>>
             ELSE <<TRUE, "Valid prompt", None>>

\* validate_prompt(prompt, max_length) -> <<is_valid, message, word>>
validate_prompt(prompt, max_length) ==
    IF prompt = <<>> \/ Strip(prompt) = <<>>
    THEN <<FALSE, "Prompt cannot be empty", None>>
    ELSE LET p == Strip(prompt)
             hits == {i \in 1..Len(banned_words) : Contains(Lower(p), banned_words[i])}
         IN  IF Len(p) > max_length THEN <<FALSE, "Prompt too long", None>>
             ELSE IF hits # {}
                  THEN <<FALSE, "Prompt contains inappropriate content",
                         banned_words[CHOOSE i \in hits : \A j \in hits : i <= j]>>
             ELSE <<TRUE, "Valid prompt", None>>

MIN_STRENGTH == 10        \* 0.1
MAX_STRENGTH == 100       \* 1.0
MIN_GUIDANCE == 10        \* 1.0
MAX_GUIDANCE == 200       \* 20.0
MIN_STEPS == 10
MAX_STEPS == 100
SEED_BASE == 65536        \* a seed is hi * 2**16 + lo with 0 <= lo < 2**16,
                          \* so that 2**32 is [hi |-> 65536, lo |-> 0]

Seed(hi, lo) == [hi |-> hi, lo |-> lo]
SeedNegative(seed) == seed.hi < 0                 \* seed < 0
SeedAboveLimit(seed) == seed.hi > SEED_BASE - 1   \* seed > 2**32 - 1

\* a seed given as a float of that value, and isinstance(seed, int)
FloatSeed(hi, lo) == [hi |-> hi, lo |-> lo, float |-> TRUE]
IsInt(seed) == "float" \notin DOMAIN seed

\* a seed check whose upper limit lets 2**32 through
validate_generation_parameters_upto(strength, guidance_scale, num_inference_steps, seed) ==
    IF ~(MIN_STRENGTH <= strength /\ strength <= MAX_STRENGTH)
    THEN <<FALSE, "Strength must be between 0.1 and 1.0">>
    ELSE IF ~(MIN_GUIDANCE <= guidance_scale /\ guidance_scale <= MAX_GUIDANCE)
    THEN <<FALSE, "Guidance scale must be between 1.0 and 20.0">>
    ELSE IF ~(MIN_STEPS <= num_inference_steps /\ num_inference_steps <= MAX_STEPS)
    THEN <<FALSE, "Number of inference steps must be between 10 and 100">>
    ELSE IF seed # Null /\ (~IsInt(seed) \/ SeedNegative(seed)
                                         \/ seed.hi > SEED_BASE
                                         \/ (seed.hi = SEED_BASE /\ seed.lo > 0))
    THEN <<FALSE, "Seed must be a positive integer less than 2^32">>
    ELSE <<TRUE, "Valid parameters">>

\* validate_generation_parameters(strength, guidance_scale, steps, seed);
\* seed is Null (None), an integer Seed(hi, lo) or a float FloatSeed(hi, lo)
validate_generation_parameters(strength, guidance_scale, num_inference_steps, seed) ==
    IF ~(MIN_STRENGTH <= strength /\ strength <= MAX_STRENGTH)
    THEN <<FALSE, "Strength must be between 0.1 and 1.0">>
    ELSE IF ~(MIN_GUIDANCE <= guidance_scale /\ guidance_scale <= MAX_GUIDANCE)
    THEN <<FALSE, "Guidance scale must be between 1.0 and 20.0">>
    ELSE IF ~(MIN_STEPS <= num_inference_steps /\ num_inference_steps <= MAX_STEPS)
    THEN <<FALSE, "Number of inference steps must be between 10 and 100">>
    ELSE IF seed # Null /\ (~IsInt(seed) \/ SeedNegative(seed) \/ SeedAboveLimit(seed))
    THEN <<FALSE, "Seed must be a positive integer less than 2^32">>
    ELSE <<TRUE, "Valid parameters">>

----------------------------------------------------------------------------
(* Image sizes: PIL's Image.thumbnail, validators.resize_image,             *)
(* DiffusionService.preprocess_image, and process_image of src/app.py       *)

PREPROCESS_MAX_SIZE == 1024
TARGET_SIZE == 512

\* n / d rounded to a neighbouring integer, 1 at least: thumbnail takes the
\* neighbour PIL's version prefers, up tells which
Rounded(n, d, up) ==
    IF n % d = 0 THEN n \div d
    ELSE Max2(IF up THEN (n \div d) + 1 ELSE n \div d, 1)

\* image.thumbnail((max_size, max_size)) -> <<width, height>>: no change when
\* the image fits, else the larger side becomes max_size
thumbnail(w, h, max_size, up) ==
    IF max_size >= w /\ max_size >= h THEN <<w, h>>
    ELSE IF w <= h THEN <<Rounded(max_size * w, h, up), max_size>>
    ELSE <<max_size, Rounded(max_size * h, w, up)>>

Sized(width, height) == [raised |-> FALSE, width |-> width, height |-> height]

\* image.resize((0, n)) raises ValueError
ResizeRaised == [raised |-> TRUE, width |-> 0, height |-> 0]

\* diffusion_service.py lines 164-173
preprocess_image(w, h, max_size, up) ==
    LET t == thumbnail(w, h, max_size, up)
        width == (t[1] \div 8) * 8
        height == (t[2] \div 8) * 8
    IN  IF width < 1 \/ height < 1 THEN ResizeRaised ELSE Sized(width, height)

\* validators.py lines 121-133, maintain_aspect = True
resize_image(w, h, max_size, up) ==
    LET t == thumbnail(w, h, max_size, up)
        width == (t[1] \div 8) * 8
        height == (t[2] \div 8) * 8
    IN  IF width > 0 /\ height > 0 THEN Sized(width, height) ELSE Sized(t[1], t[2])

\* src/app.py lines 174-189; below: whether the float quotient of an exact
\* division falls just under its integer value, so that int() gives one less
process_image_size(w, h, below) ==
    LET exact == IF w > h THEN (TARGET_SIZE * h) \div w ELSE (TARGET_SIZE * w) \div h
        short == IF w > h /\ (TARGET_SIZE * h) % w = 0 /\ below /\ exact > 0
                 THEN exact - 1 ELSE exact
        width == IF w > h THEN TARGET_SIZE ELSE (short \div 8) * 8
        height == IF w > h THEN (short \div 8) * 8 ELSE TARGET_SIZE
    IN  IF width < 1 \/ height < 1 THEN ResizeRaised ELSE Sized(width, height)

----------------------------------------------------------------------------
(* Requests to POST /transform/upload *)

GoodPrompt == <<"u","k","i","y","o"," ","w","a","v","e">>
BannedPrompt == <<"a"," ","N","u","d","e"," ","f","i","g","u","r","e">>
BlankPrompt == <<" "," ">>

JpgName == <<"a",".","j","p","g">>
UpperPngName == <<"b",".","P","N","G">>
TxtName == <<"a",".","t","x","t">>
NoDotName == <<"j","p","g">>

GoodFile == [size |-> 30000, decodable |-> TRUE, width |-> 512, height |-> 512]
TenByteFile == [size |-> 10, decodable |-> FALSE, width |-> 0, height |-> 0]

Files ==
    { GoodFile, TenByteFile,
      [GoodFile EXCEPT !.size = 0],
      [GoodFile EXCEPT !.size = MAX_CONTENT_LENGTH + 1],
      [GoodFile EXCEPT !.width = 63],
      [GoodFile EXCEPT !.height = 2049, !.width = 2049],
      [GoodFile EXCEPT !.width = 2048, !.height = 511],
      [GoodFile EXCEPT !.width = 2048, !.height = 512] }

\* a form field read with float(...) / int(...): the number, or text that does
\* not parse
Num(n) == [ok |-> TRUE, v |-> n]
NotANumber == [ok |-> FALSE, v |-> 0]

DEFAULT_MODEL == "runwayml/stable-diffusion-v1-5"      \* config.py
available_models ==
    {"stable-diffusion-v1-5", "stable-diffusion-xl", "ukiyo-e-diffusion"}

GoodRequest ==
    [ has_image |-> TRUE, filename |-> JpgName, file |-> GoodFile,
      model_name |-> "stable-diffusion-v1-5", prompt |-> GoodPrompt,
      strength |-> Num(78), guidance_scale |-> Num(85),
      num_inference_steps |-> Num(25), seed |-> Null ]

\* the good request with one field changed at a time
UploadRequests ==
    {GoodRequest}
    \cup {[GoodRequest EXCEPT !.has_image = FALSE]}
    \cup {[GoodRequest EXCEPT !.filename = n] :
              n \in {<<>>, UpperPngName, TxtName, NoDotName}}
    \cup {[GoodRequest EXCEPT !.file = f] : f \in Files}
    \cup {[GoodRequest EXCEPT !.model_name = DEFAULT_MODEL]}
    \cup {[GoodRequest EXCEPT !.prompt = p] : p \in {BannedPrompt, BlankPrompt}}
    \cup {[GoodRequest EXCEPT !.strength = x] :
              x \in {Num(5), Num(10), Num(100), Num(101), NotANumber}}
    \cup {[GoodRequest EXCEPT !.guidance_scale = x] :
              x \in {Num(5), Num(10), Num(200), Num(201)}}
    \cup {[GoodRequest EXCEPT !.num_inference_steps = x] :
              x \in {Num(5), Num(10), Num(100), Num(101)}}
    \cup {[GoodRequest EXCEPT !.seed = x] :
              x \in {Num(Seed(0, 42)), Num(Seed(-1, SEED_BASE - 1)),
                     Num(Seed(SEED_BASE, 0)), NotANumber}}

\* the requests the worker tells apart: the good one, one whose model is not
\* available, one per failing validation of the task, and one the route refuses
PipelineRequests ==
    { GoodRequest,
      [GoodRequest EXCEPT !.model_name = DEFAULT_MODEL],
      [GoodRequest EXCEPT !.prompt = BannedPrompt],
      [GoodRequest EXCEPT !.seed = Num(Seed(-1, SEED_BASE - 1))],
      [GoodRequest EXCEPT !.file = TenByteFile] }

----------------------------------------------------------------------------
(* Rows, messages, responses *)

OriginalUrl(n) == [folder |-> "originals", n |-> n]
ResultUrl(n) == [folder |-> "results", n |-> n]

\* a record created as already processing
NewTransformationProcessing(u, n) ==
    [ user_id |-> u, status |-> "processing", original_url |-> OriginalUrl(n),
      result_url |-> Null, error_message |-> None,
      started_at |-> FALSE, processing_time |-> FALSE ]

NewTransformation(u, n) ==
    [ user_id |-> u, status |-> "pending", original_url |-> OriginalUrl(n),
      result_url |-> Null, error_message |-> None,
      started_at |-> FALSE, processing_time |-> FALSE ]

\* transform.py 60-118 on the one stream of the uploaded file, positions in
\* bytes from its start: validate_image leaves the stream where its last seek
\* or Image.open left it, file.save (upload_file) copies from there to the end,
\* len(file.read()) of line 99 takes what is left, file.seek(0) rewinds and
\* file.read() of line 118 takes what is left
UploadStream(file) ==
    LET validated == IF validate_image(file)[3] = "start" THEN 0 ELSE 1
        saved == file.size
        measured == file.size
        rewound == 0
    IN  [ stored |-> saved - validated,
          original_size |-> measured - saved,
          image_data |-> file.size - rewound ]

\* the keyword arguments of process_image_task.delay(...); the id is the one
\* apply_async draws for the message, not the task_id argument
TaskMessage(u, n, r) ==
    [ id |-> [kind |-> "celery", n |-> n],
      task_id |-> n, user_id |-> u, model_name |-> r.model_name,
      image_data |-> UploadStream(r.file).image_data,
      prompt |-> r.prompt, strength |-> r.strength.v,
      guidance_scale |-> r.guidance_scale.v,
      num_inference_steps |-> r.num_inference_steps.v,
      seed |-> IF r.seed = Null THEN Null ELSE r.seed.v ]

NoMessage == [id |-> Null]

Idle == [pc |-> "idle", exc |-> None, msg |-> NoMessage, count |-> 0,
         failure |-> None]

Response(op, code) == [op |-> op, code |-> code]

Exists(t) == transformations[t] # NoRow

\* a query that leaves the user_id filter out
OwnedByAnyone(u, t) == Exists(t)

\* Transformation.query.filter_by(task_id=t, user_id=u).first() finds a row
Owned(u, t) == Exists(t) /\ transformations[t].user_id = u

Init ==
    /\ transformations = [t \in Slots |-> NoRow]
    /\ users = [u \in Users |-> 0]
    /\ files = {}
    /\ queue = {}
    /\ revoked = {}
    /\ exec = [t \in Slots |-> Idle]
    /\ notes = [t \in Slots |-> <<>>]
    /\ models = {}
    /\ nextId = 0
    /\ gallery = [i \in Items |-> NoRow]
    /\ nextItem = 0
    /\ creating = [i \in Items |-> Null]
    /\ viewing = {}
    /\ nextView = 0
    /\ nextToken = 0
    /\ resp = Response("none", 0)
    /\ call = NoCall
    /\ storage = NewStorage(FALSE)
    /\ globals = NewGlobals

----------------------------------------------------------------------------
(* routes/transform.py: upload_and_transform *)

\* the check of lines 76-83, None when the parameters pass
UploadParameterError(strength, guidance_scale, num_inference_steps) ==
    IF strength < MIN_STRENGTH \/ strength > MAX_STRENGTH
    THEN "Strength must be between 0.1 and 1.0"
    ELSE IF guidance_scale < MIN_GUIDANCE \/ guidance_scale > MAX_GUIDANCE
    THEN "Guidance scale must be between 1.0 and 20.0"
    ELSE IF num_inference_steps < MIN_STEPS \/ num_inference_steps > MAX_STEPS
    THEN "Number of inference steps must be between 10 and 100"
    ELSE None

\* the 400 answers of lines 46-64, None when the file passes
UploadFileError(r) ==
    IF ~r.has_image THEN "No image file provided"
    ELSE IF r.filename = <<>> THEN "No file selected"
    ELSE IF ~allowed_file(r.filename) THEN "Invalid file type"
    ELSE IF ~validate_image(r.file)[1] THEN validate_image(r.file)[2]
    ELSE None

\* UploadFileError on the requests drawn, computed once
FileErrors == [r \in UploadRequests \cup PipelineRequests |-> UploadFileError(r)]

\* float()/int() of lines 70-72 raise on text that is no number
FormParses(r) ==
    r.strength.ok /\ r.guidance_scale.ok /\ r.num_inference_steps.ok

\* int(seed) if seed else None, line 106
SeedParses(r) == r.seed = Null \/ r.seed.ok

\* where the handler stops: the environment decides whether the storage write,
\* the commit and the broker accept
UploadOutcomes == {"accepted", "storage_error", "commit_error", "broker_error"}

\* a return placed after the file was stored
UploadRejectAfterStore(code) ==
    /\ resp' = Response("upload", code)
    /\ files' = files \cup {OriginalUrl(nextId + 1)}
    /\ UNCHANGED <<transformations, queue, nextId>>

\* a return of lines 46-83, before anything is stored
UploadReject(code) ==
    /\ resp' = Response("upload", code)
    /\ UNCHANGED <<transformations, files, queue, nextId>>

\* lines 35-140
upload_and_transform(u, r) ==
    /\ UNCHANGED <<users, revoked, exec, notes, models, galleryVars, serviceVars>>
    /\ IF FileErrors[r] # None
       THEN UploadReject(400)
       ELSE IF ~FormParses(r)
       THEN UploadReject(500)
       ELSE IF UploadParameterError(r.strength.v, r.guidance_scale.v,
                                    r.num_inference_steps.v) # None
       THEN UploadReject(400)
       ELSE \* lines 85-135: the uuid4 draws, the stored file, the row, the task
            /\ nextId < MaxUploads
            /\ nextId' = nextId + 1
            /\ \E outcome \in UploadOutcomes :
               LET n == nextId + 1 IN
               IF outcome = "storage_error"
               THEN /\ resp' = Response("upload", 500)
                    /\ UNCHANGED <<transformations, files, queue>>
               ELSE IF ~SeedParses(r) \/ outcome = "commit_error"
               THEN \* int(seed) raises at line 106, or the commit at line 111
                    /\ files' = files \cup {OriginalUrl(n)}
                    /\ resp' = Response("upload", 500)
                    /\ UNCHANGED <<transformations, queue>>
               ELSE IF outcome = "broker_error"
               THEN /\ files' = files \cup {OriginalUrl(n)}
                    /\ transformations' =
                           [transformations EXCEPT ![n] =
                               NewTransformation(u, n) @@
                               [original_size |-> UploadStream(r.file).original_size]]
                    /\ resp' = Response("upload", 500)
                    /\ UNCHANGED queue
               ELSE /\ files' = files \cup {OriginalUrl(n)}
                    /\ transformations' =
                           [transformations EXCEPT ![n] =
                               NewTransformation(u, n) @@
                               [original_size |-> UploadStream(r.file).original_size]]
                    /\ queue' = queue \cup {TaskMessage(u, n, r)}
                    /\ resp' = Response("upload", 202)

----------------------------------------------------------------------------
(* routes/transform.py: get_transform_status, get_transform_result *)

\* lines 142-163
get_transform_status(u, t) ==
    /\ UNCHANGED <<pipelineVars, galleryVars, serviceVars>>
    /\ resp' = IF ~Owned(u, t) THEN Response("status", 404)
               ELSE [op |-> "status", code |-> 200,
                     transformation |-> transformations[t]]

\* a handler without the status check of line 180
get_transform_result_unchecked(u, t) ==
    /\ UNCHANGED <<pipelineVars, galleryVars, serviceVars>>
    /\ resp' = IF ~Owned(u, t) THEN Response("result", 404)
               ELSE [op |-> "result", code |-> 200,
                     download_url |-> transformations[t].result_url]

\* lines 165-193
get_transform_result(u, t) ==
    /\ UNCHANGED <<pipelineVars, galleryVars, serviceVars>>
    /\ resp' = IF ~Owned(u, t) THEN Response("result", 404)
               ELSE IF transformations[t].status # "completed"
               THEN [op |-> "result", code |-> 400,
                     status |-> transformations[t].status]
               ELSE [op |-> "result", code |-> 200,
                     download_url |-> transformations[t].result_url]

----------------------------------------------------------------------------
(* routes/transform.py: cancel_transformation, delete_transformation *)

CancelMessage == "Cancelled by user"

\* a precondition that also lets a failed record through
CancellableOrFailed(status) == status \in {"pending", "processing", "failed"}

\* the status precondition of line 254
Cancellable(status) == status \in {"pending", "processing"}

\* dbOk: whether the commit of line 267 goes through
cancel_transformation(u, t, dbOk) ==
    /\ UNCHANGED <<users, files, queue, exec, notes, models, nextId, galleryVars, serviceVars>>
    /\ IF ~Owned(u, t)
       THEN /\ resp' = Response("cancel", 404)
            /\ UNCHANGED <<transformations, revoked>>
       ELSE IF ~Cancellable(transformations[t].status)
       THEN /\ resp' = Response("cancel", 400)
            /\ UNCHANGED <<transformations, revoked>>
       ELSE \* celery.control.revoke(task_id, terminate=True) names the row's
            \* task_id, which is not the id of any message
            /\ revoked' = revoked \cup {[kind |-> "task_id", n |-> t]}
            /\ IF dbOk
               THEN /\ transformations' =
                        [transformations EXCEPT ![t].status = "failed",
                                                ![t].error_message = CancelMessage]
                    /\ resp' = Response("cancel", 200)
               ELSE /\ resp' = Response("cancel", 500)
                    /\ UNCHANGED transformations

\* a relationship that lets a referenced row go
ReferencedByNone(t) == FALSE

\* gallery_items.transformation_id is a NOT NULL foreign key and the
\* relationship has no delete cascade: deleting a referenced row fails
Referenced(t) ==
    \E i \in DOMAIN gallery : gallery[i] # NoRow /\ gallery[i].transformation_id = t

delete_transformation(u, t, dbOk) ==
    /\ UNCHANGED <<users, queue, revoked, exec, notes, models, nextId, galleryVars, serviceVars>>
    /\ IF ~Owned(u, t)
       THEN /\ resp' = Response("delete", 404)
            /\ UNCHANGED <<transformations, files>>
       ELSE /\ files' = files \ {transformations[t].original_url,
                                 transformations[t].result_url}
            /\ IF dbOk /\ ~Referenced(t)
               THEN /\ transformations' = [transformations EXCEPT ![t] = NoRow]
                    /\ resp' = Response("delete", 200)
               ELSE /\ resp' = Response("delete", 500)
                    /\ UNCHANGED transformations

----------------------------------------------------------------------------
(* services/diffusion_service.py, as the task uses it *)

\* a load that keeps the new model only
load_model_alone(cache, model_name, ok) ==
    IF model_name \in cache THEN <<TRUE, cache>>
    ELSE IF model_name \notin available_models THEN <<FALSE, cache>>
    ELSE IF ok THEN <<TRUE, {model_name}>>
    ELSE <<FALSE, cache>>

\* load_model(model_name) -> <<returned value, self.models afterwards>>;
\* ok: whether from_pretrained and the pipeline set-up go through
load_model(cache, model_name, ok) ==
    IF model_name \in cache THEN <<TRUE, cache>>
    ELSE IF model_name \notin available_models THEN <<FALSE, cache>>
    ELSE IF ok THEN <<TRUE, cache \cup {model_name}>>
    ELSE <<FALSE, cache>>

\* generate_image(...) -> <<an image was returned, self.models afterwards,
\* torch.cuda.empty_cache() was called>> on a service whose device is cuda;
\* inferOk: whether preprocessing, the ControlNet set-up and inference go
\* through: when one of them raises, the except block of lines 259-265 runs
generate_image(cache, model_name, loadOk, inferOk) ==
    LET l == load_model(cache, model_name, loadOk)
    IN  IF ~l[1] THEN <<FALSE, l[2], FALSE>>
        ELSE <<inferOk, l[2], TRUE>>

\* a call on the service: what it returned and self.models afterwards
ServiceCall(fn, model_name, result, cache) ==
    /\ call' = [fn |-> fn, args |-> <<model_name>>, done |-> TRUE, result |-> result]
    /\ models' = cache
    /\ UNCHANGED <<transformations, users, files, queue, revoked, exec, notes,
                   nextId, galleryVars, resp, storage, globals>>

\* lines 267-274
unload_model(model_name) ==
    ServiceCall("unload_model", model_name, Null, models \ {model_name})

\* lines 291-301
clear_cache == ServiceCall("clear_cache", None, Null, {})

----------------------------------------------------------------------------
(* src/app.py: the standalone application.  A pipeline is written as the    *)
(* model_id it was loaded for; current_pipeline is "unbound" once           *)
(* `del current_pipeline` has removed the global name                       *)

\* load_model(model_id), lines 99-161 -> <<the pipeline returned or "raised",
\* the globals afterwards>>; ok: whether from_pretrained and the set-up of
\* lines 132-151 go through.  Reading the unbound global raises NameError, at
\* line 103 outside the try, at line 114 inside it
app_load_model(g, model_id, ok) ==
    IF g.current_model = model_id /\ g.current_pipeline = "unbound"
    THEN <<"raised", g>>
    ELSE IF g.current_model = model_id /\ g.current_pipeline # None
    THEN <<g.current_pipeline, g>>
    ELSE IF model_id \notin g.available_models THEN <<"raised", g>>
    ELSE IF g.current_pipeline = "unbound" THEN <<"raised", g>>
    ELSE IF ok
    THEN <<model_id, [g EXCEPT !.current_pipeline = model_id,
                               !.current_model = model_id]>>
    ELSE IF g.current_pipeline # None
    THEN <<"raised", [g EXCEPT !.current_pipeline = "unbound"]>>
    ELSE <<"raised", g>>

\* process_image, lines 191-248, for an image that decodes -> <<success, the
\* globals afterwards>>; model_id None: the request names no model
app_process_image(g, model_id, loadOk, inferOk) ==
    LET chosen == IF model_id # None THEN model_id
                  ELSE IF "ukiyo_e_lora" \in g.available_models THEN "ukiyo_e_lora"
                  ELSE IF g.available_models = {} THEN None
                  ELSE CHOOSE m \in g.available_models : TRUE
        l == app_load_model(g, chosen, loadOk)
    IN  IF chosen = None THEN <<FALSE, g>>
        ELSE <<l[1] # "raised" /\ inferOk, l[2]>>

\* a call in the application: what it returned and the globals afterwards
AppCall(fn, model_id, result, g) ==
    /\ call' = [fn |-> fn, args |-> <<model_id>>, done |-> TRUE, result |-> result]
    /\ globals' = g
    /\ UNCHANGED <<pipelineVars, galleryVars, resp, storage>>

\* scan_for_models, lines 68-97 -> the globals afterwards; found: whether
\* models/ukiyo_e_lora holds a model_index.json
scan_for_models(g, found) ==
    [g EXCEPT !.available_models = IF found THEN {"ukiyo_e_lora"}
                                   ELSE {"runwayml/stable-diffusion-v1-5"}]

----------------------------------------------------------------------------
(* tasks/image_processing.py: process_image_task, one action per phase *)

Note(status, progress) == [status |-> status, progress |-> progress]

\* emit_progress_update(task_id, status, message, progress)
Emit(t, status, progress) ==
    notes' = [notes EXCEPT ![t] = Append(@, Note(status, progress))]

Goto(t, pc) == exec' = [exec EXCEPT ![t].pc = pc]

\* raise: control passes to the except block of line 130 with str(e)
Raise(t, message) == exec' = [exec EXCEPT ![t].pc = "fail", ![t].exc = message]

Finished(failure, exc) ==
    [pc |-> "done", exc |-> exc, msg |-> NoMessage, count |-> 0,
     failure |-> failure]

At(t, pc) == exec[t].pc = pc

\* lines 32-42
TaskStart(m, dbOk) ==
    LET t == m.task_id IN
    /\ m \in queue
    /\ m.id \notin revoked
    /\ queue' = queue \ {m}
    /\ UNCHANGED <<users, files, revoked, models, nextId, galleryVars, serviceVars, resp>>
    /\ IF ~Exists(t)
       THEN /\ exec' = [exec EXCEPT ![t] = Finished("not_found", None)]
            /\ UNCHANGED <<transformations, notes>>
       ELSE IF dbOk
       THEN /\ transformations' =
                [transformations EXCEPT ![t].status = "processing",
                                        ![t].started_at = TRUE]
            /\ exec' = [exec EXCEPT ![t] = [Idle EXCEPT !.pc = "validate", !.msg = m]]
            /\ Emit(t, "processing", 10)
       ELSE /\ exec' = [exec EXCEPT ![t] =
                           [Idle EXCEPT !.pc = "fail", !.msg = m,
                                        !.exc = "database error"]]
            /\ UNCHANGED <<transformations, notes>>

\* validate_prompt on the prompts of the requests drawn, computed once
PromptVerdicts ==
    [p \in {r.prompt : r \in UploadRequests \cup PipelineRequests} |->
        validate_prompt(p, DEFAULT_MAX_PROMPT)]

\* lines 44-56
TaskValidate(t) ==
    LET m == exec[t].msg IN
    /\ At(t, "validate")
    /\ UNCHANGED <<transformations, users, files, queue, revoked, models, nextId,
                   galleryVars, serviceVars, resp>>
    /\ IF ~PromptVerdicts[m.prompt][1]
       THEN Raise(t, "Invalid prompt") /\ UNCHANGED notes
       ELSE IF ~validate_generation_parameters(
                    m.strength, m.guidance_scale, m.num_inference_steps, m.seed)[1]
       THEN Raise(t, "Invalid parameters") /\ UNCHANGED notes
       ELSE Goto(t, "load") /\ Emit(t, "processing", 20)

\* lines 58-62
TaskLoadModel(t, ok) ==
    LET l == load_model(models, exec[t].msg.model_name, ok) IN
    /\ At(t, "load")
    /\ models' = l[2]
    /\ UNCHANGED <<transformations, users, files, queue, revoked, nextId,
                   galleryVars, serviceVars, resp>>
    /\ IF l[1]
       THEN Goto(t, "decode") /\ Emit(t, "processing", 30)
       ELSE Raise(t, "Failed to load model") /\ UNCHANGED notes

\* lines 64-70; ok: whether Image.open and get_memory_usage go through
TaskDecode(t, ok) ==
    /\ At(t, "decode")
    /\ UNCHANGED <<transformations, users, files, queue, revoked, models, nextId,
                   galleryVars, serviceVars, resp>>
    /\ IF ok
       THEN Goto(t, "generate") /\ Emit(t, "processing", 40)
       ELSE Raise(t, "cannot identify image file") /\ UNCHANGED notes

\* lines 72-87
TaskGenerate(t, loadOk, inferOk) ==
    LET g == generate_image(models, exec[t].msg.model_name, loadOk, inferOk) IN
    /\ At(t, "generate")
    /\ models' = g[2]
    /\ UNCHANGED <<transformations, users, files, queue, revoked, nextId,
                   galleryVars, serviceVars, resp>>
    /\ IF g[1]
       THEN Goto(t, "upload") /\ Emit(t, "processing", 80)
       ELSE Raise(t, "Image generation failed") /\ UNCHANGED notes

\* lines 89-93; ok: whether storage_service.upload_image goes through
TaskUpload(t, ok) ==
    /\ At(t, "upload")
    /\ UNCHANGED <<transformations, users, queue, revoked, models, nextId, notes,
                   galleryVars, serviceVars, resp>>
    /\ IF ok
       THEN Goto(t, "metrics") /\ files' = files \cup {ResultUrl(t)}
       ELSE Raise(t, "storage error") /\ UNCHANGED files

\* lines 95-112: transformation.started_at reloads the row the commit of
\* line 39 expired; User.query.get reads the counter
TaskReadUser(t) ==
    /\ At(t, "metrics")
    /\ UNCHANGED <<transformations, users, files, queue, revoked, models, nextId,
                   notes, galleryVars, serviceVars, resp>>
    /\ IF ~Exists(t)
       THEN Raise(t, "row deleted")
       ELSE exec' = [exec EXCEPT ![t].pc = "commit",
                                 ![t].count = users[exec[t].msg.user_id]]

\* a success write that leaves result_url out
TaskCommitNoResult(t, dbOk) ==
    /\ At(t, "commit")
    /\ UNCHANGED <<files, queue, revoked, models, nextId, galleryVars, serviceVars, resp, users>>
    /\ transformations' = [transformations EXCEPT ![t].status = "completed"]
    /\ exec' = [exec EXCEPT ![t] = Finished(None, None)]
    /\ Emit(t, "completed", 100)

\* lines 100-116: the UPDATE carries the assigned columns and the counter as
\* it was read plus one
TaskCommit(t, dbOk) ==
    /\ At(t, "commit")
    /\ UNCHANGED <<files, queue, revoked, models, nextId, galleryVars, serviceVars, resp>>
    /\ IF Exists(t) /\ dbOk
       THEN /\ transformations' =
                [transformations EXCEPT ![t].status = "completed",
                                        ![t].result_url = ResultUrl(t),
                                        ![t].processing_time = TRUE]
            /\ users' = [users EXCEPT ![exec[t].msg.user_id] = exec[t].count + 1]
            /\ exec' = [exec EXCEPT ![t] = Finished(None, None)]
            /\ Emit(t, "completed", 100)
       ELSE /\ Raise(t, IF Exists(t) THEN "database error" ELSE "row deleted")
            /\ UNCHANGED <<transformations, users, notes>>

\* lines 130-160; dbOk: whether the query and commit of lines 138-149 go through
TaskFail(t, dbOk) ==
    /\ At(t, "fail")
    /\ UNCHANGED <<users, files, queue, revoked, models, nextId, galleryVars, serviceVars, resp>>
    /\ Emit(t, "failed", 0)
    /\ IF Exists(t) /\ dbOk
       THEN /\ transformations' =
                [transformations EXCEPT
                    ![t].status = "failed",
                    ![t].error_message = exec[t].exc,
                    ![t].processing_time = (@ \/ transformations[t].started_at)]
            /\ exec' = [exec EXCEPT ![t] = Finished("recorded", exec[t].exc)]
       ELSE /\ exec' = [exec EXCEPT ![t] =
                           Finished(IF Exists(t) THEN "lost" ELSE "no_row",
                                    exec[t].exc)]
            /\ UNCHANGED transformations

----------------------------------------------------------------------------
(* routes/gallery.py *)

\* JSON values of the is_public key; Absent when the body has no such key
JTrue == "true"
JFalse == "false"
JNull == "null"
Absent == "absent"

Truthy(v) == v = JTrue

ItemResponse(op, code, i) == [op |-> op, code |-> code, item |-> i]

Item(i) == gallery[i]
ItemExists(i) == gallery[i] # NoRow
ItemOwned(u, i) == ItemExists(i) /\ gallery[i].user_id = u

\* a query that sees the public items only
existing_public_item(u, t) ==
    \E i \in Items : /\ ItemOwned(u, i)
                     /\ gallery[i].transformation_id = t
                     /\ gallery[i].is_public = JTrue

\* GalleryItem.query.filter_by(transformation_id=t, user_id=u).first() finds a row
existing_item(u, t) ==
    \E i \in Items : ItemOwned(u, i) /\ gallery[i].transformation_id = t

\* the is_public values the requests carry
PublicValues == {Absent, JTrue, JFalse, JNull}

\* a request body: [transformation_id (a slot, or 0 when missing), title
\* (present or not), is_public]; the bodies drawn are the well-formed ones
\* for every slot and the two with a required key missing
CreateBody(t, title, value) ==
    [transformation_id |-> t, title |-> title, is_public |-> value]

CreateBodies ==
    {CreateBody(t, TRUE, v) : t \in Slots, v \in PublicValues}
        \cup {CreateBody(0, TRUE, Absent), CreateBody(1, FALSE, Absent)}

\* lines 62-89: the answer of the checks, 0 when the request passes them
CreateCheckCode(u, d) ==
    IF d.transformation_id = 0 \/ ~d.title THEN 400
    ELSE IF ~Owned(u, d.transformation_id) THEN 404
    ELSE IF transformations[d.transformation_id].status # "completed" THEN 400
    ELSE IF existing_item(u, d.transformation_id) THEN 409
    ELSE 0

\* lines 62-89
CreateCheck(u, d) ==
    /\ UNCHANGED <<pipelineVars, serviceVars, gallery, viewing, nextView, nextToken>>
    /\ IF CreateCheckCode(u, d) # 0
       THEN /\ resp' = Response("create_item", CreateCheckCode(u, d))
            /\ UNCHANGED <<nextItem, creating>>
       ELSE /\ nextItem < MaxItems
            /\ nextItem' = nextItem + 1
            /\ creating' = [creating EXCEPT ![nextItem + 1] =
                   [user_id |-> u, transformation_id |-> d.transformation_id,
                    is_public |-> IF d.is_public = Absent THEN JFalse
                                  ELSE d.is_public]]
            /\ UNCHANGED resp

\* generate_share_token: secrets.token_urlsafe(32), a value not drawn before
FreshToken == [token |-> nextToken + 1]

\* lines 91-115; dbOk: whether the commit of line 106 goes through
CreateInsert(i, dbOk) ==
    LET q == creating[i] IN
    /\ q # Null
    /\ Truthy(q.is_public) => nextToken < MaxTokens
    /\ creating' = [creating EXCEPT ![i] = Null]
    /\ UNCHANGED <<pipelineVars, serviceVars, nextItem, viewing, nextView>>
    /\ IF dbOk /\ Exists(q.transformation_id)
       THEN /\ gallery' = [gallery EXCEPT ![i] =
                   [user_id |-> q.user_id,
                    transformation_id |-> q.transformation_id,
                    is_public |-> q.is_public,
                    share_token |-> IF Truthy(q.is_public) THEN FreshToken ELSE Null,
                    view_count |-> 0]]
            /\ nextToken' = IF Truthy(q.is_public) THEN nextToken + 1 ELSE nextToken
            /\ resp' = ItemResponse("create_item", 201, i)
       ELSE /\ resp' = Response("create_item", 500)
            /\ UNCHANGED <<gallery, nextToken>>

\* an update that leaves the token of an item made private in place
SetPublicKeepToken(row, value, token) ==
    IF value = Absent THEN row
    ELSE IF Truthy(value) /\ row.share_token = Null
    THEN [row EXCEPT !.is_public = value, !.share_token = token]
    ELSE [row EXCEPT !.is_public = value]

\* lines 185-192, on the row; token: the value generate_share_token would draw
SetPublic(row, value, token) ==
    IF value = Absent THEN row
    ELSE IF Truthy(value) /\ row.share_token = Null
    THEN [row EXCEPT !.is_public = value, !.share_token = token]
    ELSE IF ~Truthy(value)
    THEN [row EXCEPT !.is_public = value, !.share_token = Null]
    ELSE [row EXCEPT !.is_public = value]

\* lines 158-209; value: the is_public key of the body
update_gallery_item(u, i, value) ==
    /\ UNCHANGED <<pipelineVars, serviceVars, nextItem, creating, viewing, nextView>>
    /\ IF ~ItemOwned(u, i)
       THEN /\ resp' = Response("update_item", 404)
            /\ UNCHANGED <<gallery, nextToken>>
       ELSE LET new == SetPublic(gallery[i], value, FreshToken) IN
            /\ new.share_token = FreshToken => nextToken < MaxTokens
            /\ \E dbOk \in BOOLEAN :
               IF dbOk
               THEN /\ gallery' = [gallery EXCEPT ![i] = new]
                    /\ nextToken' = IF new.share_token = FreshToken
                                    THEN nextToken + 1 ELSE nextToken
                    /\ resp' = ItemResponse("update_item", 200, i)
               ELSE /\ resp' = Response("update_item", 500)
                    /\ UNCHANGED <<gallery, nextToken>>

\* lines 211-238
delete_gallery_item(u, i) ==
    /\ UNCHANGED <<pipelineVars, serviceVars, nextItem, creating, viewing, nextView, nextToken>>
    /\ IF ~ItemOwned(u, i)
       THEN resp' = Response("delete_item", 404) /\ UNCHANGED gallery
       ELSE \E dbOk \in BOOLEAN :
            IF dbOk
            THEN /\ gallery' = [gallery EXCEPT ![i] = NoRow]
                 /\ resp' = Response("delete_item", 200)
            ELSE resp' = Response("delete_item", 500) /\ UNCHANGED gallery

Callers == Users \cup {Anonymous}

\* an access check that lets everyone through
AccessDeniedNever(row, caller) == FALSE

\* line 142: the access check of get_gallery_item
AccessDenied(row, caller) == ~Truthy(row.is_public) /\ row.user_id # caller

\* line 146: whether the view is counted
CountsView(row, caller) == Truthy(row.is_public) /\ row.user_id # caller

\* a view between its read of view_count and the commit of view_count + 1
View(op, i) == [op |-> op, item |-> i, count |-> gallery[i].view_count]

\* the counted views of a run are numbered, MaxViews of them at most
StartView(v) ==
    /\ nextView < MaxViews
    /\ nextView' = nextView + 1
    /\ viewing' = viewing \cup {v}

\* lines 122-147: the query, the access check, the read of the counter
get_gallery_item(caller, i) ==
    /\ UNCHANGED <<pipelineVars, serviceVars, gallery, nextItem, creating, nextToken>>
    /\ IF ~ItemExists(i)
       THEN resp' = Response("get_item", 404) /\ UNCHANGED <<viewing, nextView>>
       ELSE IF AccessDenied(gallery[i], caller)
       THEN resp' = Response("get_item", 403) /\ UNCHANGED <<viewing, nextView>>
       ELSE IF CountsView(gallery[i], caller)
       THEN StartView(View("get_item", i)) /\ UNCHANGED resp
       ELSE resp' = ItemResponse("get_item", 200, i) /\ UNCHANGED <<viewing, nextView>>

\* GalleryItem.query.filter_by(share_token=token, is_public=True).first()
shared_items(token) ==
    {i \in Items : ItemExists(i) /\ gallery[i].share_token = token
                                 /\ gallery[i].is_public = JTrue}

\* lines 291-304: the query and the read of the counter
get_shared_gallery_item(token) ==
    /\ UNCHANGED <<pipelineVars, serviceVars, gallery, nextItem, creating, nextToken>>
    /\ IF shared_items(token) = {}
       THEN /\ resp' = [op |-> "get_shared", code |-> 404, token |-> token]
            /\ UNCHANGED <<viewing, nextView>>
       ELSE LET i == CHOOSE j \in shared_items(token) : TRUE IN
            StartView(View("get_shared", i)) /\ UNCHANGED resp

\* lines 147-152 and 304-309: the UPDATE of the counter read, then the answer
ViewCommit(v, dbOk) ==
    /\ v \in viewing
    /\ viewing' = viewing \ {v}
    /\ UNCHANGED <<pipelineVars, serviceVars, nextItem, creating, nextToken, nextView>>
    /\ IF dbOk /\ ItemExists(v.item)
       THEN /\ gallery' = [gallery EXCEPT ![v.item].view_count = v.count + 1]
            /\ resp' = ItemResponse(v.op, 200, v.item)
       ELSE /\ resp' = Response(v.op, 500)
            /\ UNCHANGED gallery

\* lines 240-285
public_items == {i \in Items : ItemExists(i) /\ gallery[i].is_public = JTrue}

get_public_gallery ==
    /\ UNCHANGED <<pipelineVars, galleryVars, serviceVars>>
    /\ resp' = [op |-> "public_gallery", code |-> 200, items |-> public_items]

----------------------------------------------------------------------------
(* The pipeline: uploads, the worker, cancel and delete requests *)

Next ==
    \/ \E u \in Users, r \in PipelineRequests : upload_and_transform(u, r)
    \/ \E u \in Users, t \in Slots, dbOk \in BOOLEAN :
           cancel_transformation(u, t, dbOk)
    \/ \E u \in Users, t \in Slots, dbOk \in BOOLEAN :
           delete_transformation(u, t, dbOk)
    \/ \E m \in queue, dbOk \in BOOLEAN : TaskStart(m, dbOk)
    \/ \E t \in Slots : TaskValidate(t)
    \/ \E t \in Slots, ok \in BOOLEAN : TaskLoadModel(t, ok)
    \/ \E t \in Slots, ok \in BOOLEAN : TaskDecode(t, ok)
    \/ \E t \in Slots, loadOk, inferOk \in BOOLEAN : TaskGenerate(t, loadOk, inferOk)
    \/ \E t \in Slots, ok \in BOOLEAN : TaskUpload(t, ok)
    \/ \E t \in Slots : TaskReadUser(t)
    \/ \E t \in Slots, dbOk \in BOOLEAN : TaskCommit(t, dbOk)
    \/ \E t \in Slots, dbOk \in BOOLEAN : TaskFail(t, dbOk)

Spec == Init /\ [][Next]_vars

----------------------------------------------------------------------------
(* The worker and the cancel requests, over the uploads of one user *)

WorkerNext ==
    \/ \E r \in PipelineRequests : upload_and_transform("u1", r)
    \/ \E u \in Users, t \in Slots, dbOk \in BOOLEAN :
           cancel_transformation(u, t, dbOk)
    \/ \E m \in queue, dbOk \in BOOLEAN : TaskStart(m, dbOk)
    \/ \E t \in Slots : TaskValidate(t)
    \/ \E t \in Slots, ok \in BOOLEAN : TaskLoadModel(t, ok)
    \/ \E t \in Slots, ok \in BOOLEAN : TaskDecode(t, ok)
    \/ \E t \in Slots, loadOk, inferOk \in BOOLEAN : TaskGenerate(t, loadOk, inferOk)
    \/ \E t \in Slots, ok \in BOOLEAN : TaskUpload(t, ok)
    \/ \E t \in Slots : TaskReadUser(t)
    \/ \E t \in Slots, dbOk \in BOOLEAN : TaskCommit(t, dbOk)
    \/ \E t \in Slots, dbOk \in BOOLEAN : TaskFail(t, dbOk)

WorkerSpec == Init /\ [][WorkerNext]_vars

----------------------------------------------------------------------------
(* A worker that runs every task it is given, with the model load, the      *)
(* generation and the result upload going through; no cancel, no delete     *)

TaskStep(t) ==
    \/ \E m \in queue, dbOk \in BOOLEAN : m.task_id = t /\ TaskStart(m, dbOk)
    \/ TaskValidate(t)
    \/ TaskLoadModel(t, TRUE)
    \/ \E ok \in BOOLEAN : TaskDecode(t, ok)
    \/ TaskGenerate(t, TRUE, TRUE)
    \/ TaskUpload(t, TRUE)
    \/ TaskReadUser(t)
    \/ \E dbOk \in BOOLEAN : TaskCommit(t, dbOk)
    \/ \E dbOk \in BOOLEAN : TaskFail(t, dbOk)

LiveNext ==
    \/ \E u \in Users, r \in PipelineRequests : upload_and_transform(u, r)
    \/ \E t \in Slots : TaskStep(t)

LiveSpec ==
    Init /\ [][LiveNext]_vars /\ \A t \in Slots : WF_vars(TaskStep(t))

----------------------------------------------------------------------------
(* The upload and cancel requests while no worker runs, over every request *)
(* of UploadRequests                                                       *)

RequestNext ==
    \/ \E u \in Users, r \in UploadRequests : upload_and_transform(u, r)
    \/ \E u \in Users, t \in Slots, dbOk \in BOOLEAN :
           cancel_transformation(u, t, dbOk)

RequestSpec == Init /\ [][RequestNext]_vars

----------------------------------------------------------------------------
(* The gallery, over the transformation of one finished or waiting upload *)

SuccessNotes ==
    << Note("processing", 10), Note("processing", 20), Note("processing", 30),
       Note("processing", 40), Note("processing", 80), Note("completed", 100) >>

\* the pipeline after u1's upload of GoodRequest was accepted and, when
\* ran, its task went through
GalleryInit ==
    /\ \E ran \in BOOLEAN :
        /\ transformations =
               [t \in Slots |->
                   IF t # 1 THEN NoRow
                   ELSE IF ran
                   THEN [NewTransformation("u1", 1) EXCEPT
                             !.status = "completed", !.result_url = ResultUrl(1),
                             !.started_at = TRUE, !.processing_time = TRUE]
                   ELSE NewTransformation("u1", 1)]
        /\ users = [u \in Users |-> IF u = "u1" /\ ran THEN 1 ELSE 0]
        /\ files = IF ran THEN {OriginalUrl(1), ResultUrl(1)} ELSE {OriginalUrl(1)}
        /\ queue = IF ran THEN {} ELSE {TaskMessage("u1", 1, GoodRequest)}
        /\ exec = [t \in Slots |-> IF t = 1 /\ ran THEN Finished(None, None) ELSE Idle]
        /\ notes = [t \in Slots |-> IF t = 1 /\ ran THEN SuccessNotes ELSE <<>>]
        /\ models = IF ran THEN {GoodRequest.model_name} ELSE {}
    /\ revoked = {}
    /\ nextId = 1
    /\ gallery = [i \in Items |-> NoRow]
    /\ nextItem = 0
    /\ creating = [i \in Items |-> Null]
    /\ viewing = {}
    /\ nextView = 0
    /\ nextToken = 0
    /\ resp = Response("upload", 202)
    /\ call = NoCall
    /\ storage = NewStorage(FALSE)
    /\ globals = NewGlobals

GalleryNext ==
    \/ \E u \in Users, d \in CreateBodies : CreateCheck(u, d)
    \/ \E i \in Items, dbOk \in BOOLEAN : CreateInsert(i, dbOk)
    \/ \E u \in Users, i \in Items, v \in PublicValues : update_gallery_item(u, i, v)
    \/ \E u \in Users, i \in Items : delete_gallery_item(u, i)

GallerySpec == GalleryInit /\ [][GalleryNext]_vars

----------------------------------------------------------------------------
(* The requests on records, of their owner and of another user, over the   *)
(* transformation of one finished or waiting upload                        *)

CrudNext ==
    \/ \E u \in Users, t \in Slots : get_transform_status(u, t)
    \/ \E u \in Users, t \in Slots : get_transform_result(u, t)
    \/ \E u \in Users, t \in Slots, dbOk \in BOOLEAN :
           cancel_transformation(u, t, dbOk)
    \/ \E u \in Users, t \in Slots, dbOk \in BOOLEAN :
           delete_transformation(u, t, dbOk)
    \/ \E u \in Users, d \in CreateBodies : CreateCheck(u, d)
    \/ \E i \in Items, dbOk \in BOOLEAN : CreateInsert(i, dbOk)
    \/ \E u \in Users, i \in Items, v \in PublicValues : update_gallery_item(u, i, v)
    \/ \E u \in Users, i \in Items : delete_gallery_item(u, i)

CrudSpec == GalleryInit /\ [][CrudNext]_vars

----------------------------------------------------------------------------
(* The uploads of one user, the worker of LiveSpec, the cancel and delete   *)
(* requests of that user and the create requests of both users, with the   *)
(* commits of the requests going through                                   *)

CuratedNext ==
    \/ upload_and_transform("u1", GoodRequest)
    \/ \E t \in Slots : cancel_transformation("u1", t, TRUE)
    \/ \E t \in Slots : delete_transformation("u1", t, TRUE)
    \/ \E t \in Slots : TaskStep(t)
    \/ \E u \in Users, t \in Slots : CreateCheck(u, CreateBody(t, TRUE, Absent))
    \/ \E i \in Items : CreateInsert(i, TRUE)

CuratedSpec == Init /\ [][CuratedNext]_vars

----------------------------------------------------------------------------
(* The worker pool on the accepted uploads of one user, one more than       *)
(* MaxUploads so that two executions overlap: each upload is GoodRequest or *)
(* the request whose prompt the task refuses                                *)

CounterNext ==
    \/ \E m \in queue, dbOk \in BOOLEAN : TaskStart(m, dbOk)
    \/ \E t \in DOMAIN exec : TaskValidate(t)
    \/ \E t \in DOMAIN exec, ok \in BOOLEAN : TaskLoadModel(t, ok)
    \/ \E t \in DOMAIN exec, ok \in BOOLEAN : TaskDecode(t, ok)
    \/ \E t \in DOMAIN exec, loadOk, inferOk \in BOOLEAN :
           TaskGenerate(t, loadOk, inferOk)
    \/ \E t \in DOMAIN exec, ok \in BOOLEAN : TaskUpload(t, ok)
    \/ \E t \in DOMAIN exec : TaskReadUser(t)
    \/ \E t \in DOMAIN exec, dbOk \in BOOLEAN : TaskCommit(t, dbOk)
    \/ \E t \in DOMAIN exec, dbOk \in BOOLEAN : TaskFail(t, dbOk)

CounterSpec ==
    /\ LET Jobs == 1..(MaxUploads + 1) IN
       /\ transformations = [t \in Jobs |-> NewTransformation("u1", t)]
       /\ files = {OriginalUrl(t) : t \in Jobs}
       /\ \E request \in [Jobs -> {GoodRequest,
                                   [GoodRequest EXCEPT !.prompt = BannedPrompt]}] :
              queue = {TaskMessage("u1", t, request[t]) : t \in Jobs}
       /\ exec = [t \in Jobs |-> Idle]
       /\ notes = [t \in Jobs |-> <<>>]
       /\ nextId = MaxUploads + 1
    /\ users = [u \in Users |-> 0]
    /\ revoked = {}
    /\ models = {}
    /\ gallery = [i \in Items |-> NoRow]
    /\ nextItem = 0
    /\ creating = [i \in Items |-> Null]
    /\ viewing = {}
    /\ nextView = 0
    /\ nextToken = 0
    /\ resp = Response("upload", 202)
    /\ call = NoCall
    /\ storage = NewStorage(FALSE)
    /\ globals = NewGlobals
    /\ [][CounterNext]_vars

----------------------------------------------------------------------------
(* The diffusion service of one worker, called with the names of the       *)
(* available models, with the configured default, which is no such name,   *)
(* and with a name nobody configured                                       *)

DiffusionNext ==
    LET names == available_models \cup {DEFAULT_MODEL, "no-such-model"} IN
    \/ \E m \in names, ok \in BOOLEAN :
           LET l == load_model(models, m, ok)
           IN  ServiceCall("load_model", m, [returned |-> l[1]], l[2])
    \/ \E m \in names, loadOk, inferOk \in BOOLEAN :
           LET g == generate_image(models, m, loadOk, inferOk)
           IN  ServiceCall("generate_image", m,
                           [image |-> g[1], released |-> g[3]], g[2])
    \/ \E m \in names : unload_model(m)
    \/ clear_cache

DiffusionSpec == Init /\ [][DiffusionNext]_vars

----------------------------------------------------------------------------
(* The standalone application: scans of the models folder, load_model and  *)
(* process_image calls naming either model, a model nobody has, or none    *)

AppNext ==
    LET ids == {"ukiyo_e_lora", "runwayml/stable-diffusion-v1-5", "no-such-model"} IN
    \/ \E found \in BOOLEAN :       \* at start-up, line 328
           AppCall("scan_for_models", None, None, scan_for_models(globals, found))
    \/ \E found \in BOOLEAN :       \* GET /api/models, lines 250-257
           AppCall("get_models", None, globals.current_model,
                   scan_for_models(globals, found))
    \/ \E m \in ids \cup {None}, ok \in BOOLEAN :
           LET l == app_load_model(globals, m, ok)
           IN  AppCall("load_model", m, l[1], l[2])
    \/ \E m \in ids \cup {None}, loadOk, inferOk \in BOOLEAN :
           LET r == app_process_image(globals, m, loadOk, inferOk)
           IN  AppCall("process_image", m, r[1], r[2])

AppSpec == Init /\ [][AppNext]_vars

----------------------------------------------------------------------------
(* The views of one gallery item of u1, public or private as created *)

ViewInit ==
    /\ transformations =
           [t \in Slots |->
               IF t # 1 THEN NoRow
               ELSE [NewTransformation("u1", 1) EXCEPT
                         !.status = "completed", !.result_url = ResultUrl(1),
                         !.started_at = TRUE, !.processing_time = TRUE]]
    /\ users = [u \in Users |-> IF u = "u1" THEN 1 ELSE 0]
    /\ files = {OriginalUrl(1), ResultUrl(1)}
    /\ queue = {}
    /\ exec = [t \in Slots |-> IF t = 1 THEN Finished(None, None) ELSE Idle]
    /\ notes = [t \in Slots |-> IF t = 1 THEN SuccessNotes ELSE <<>>]
    /\ models = {GoodRequest.model_name}
    /\ revoked = {}
    /\ nextId = 1
    /\ \E public \in BOOLEAN :
        /\ gallery =
               [i \in Items |->
                   IF i # 1 THEN NoRow
                   ELSE [user_id |-> "u1", transformation_id |-> 1,
                         is_public |-> IF public THEN JTrue ELSE JFalse,
                         share_token |-> IF public THEN [token |-> 1] ELSE Null,
                         view_count |-> 0]]
        /\ nextToken = IF public THEN 1 ELSE 0
    /\ nextItem = 1
    /\ creating = [i \in Items |-> Null]
    /\ viewing = {}
    /\ nextView = 0
    /\ resp = ItemResponse("create_item", 201, 1)
    /\ call = NoCall
    /\ storage = NewStorage(FALSE)
    /\ globals = NewGlobals

ViewNext ==
    \/ \E u \in Users, i \in Items, v \in PublicValues : update_gallery_item(u, i, v)
    \/ \E u \in Users, i \in Items : delete_gallery_item(u, i)
    \/ \E c \in Callers, i \in Items : get_gallery_item(c, i)
    \/ \E k \in Tokens : get_shared_gallery_item([token |-> k])
    \/ \E v \in viewing, dbOk \in BOOLEAN : ViewCommit(v, dbOk)
    \/ get_public_gallery

ViewSpec == ViewInit /\ [][ViewNext]_vars

----------------------------------------------------------------------------
(* The functions of utils/validators.py applied to arguments drawn at the   *)
(* start                                                                    *)

Application(fn, args) == [fn |-> fn, args |-> args, done |-> FALSE, result |-> Null]

FunctionCalls ==
    LET
        \* strength in hundredths, guidance_scale in tenths, steps, seed: the limits,
        \* their neighbours and a value inside
        ParameterArguments ==
            { <<s, g, n, seed>> :
                s \in {5, 9, 10, 78, 100, 101},
                g \in {5, 9, 10, 85, 200, 201},
                n \in {5, 9, 10, 25, 100, 101},
                seed \in {Null, Seed(0, 0), Seed(0, 42), Seed(-1, SEED_BASE - 1),
                          Seed(SEED_BASE - 1, SEED_BASE - 1), Seed(SEED_BASE, 0),
                          FloatSeed(0, 42)} }

        \* prompts: none, blank, clean, with a denylist word in mixed and in upper
        \* case, inside a longer word, two of them, and padded with blanks; limits:
        \* the default one and two short ones
        PromptArguments ==
            { <<p, n>> :
                p \in { <<>>, BlankPrompt, GoodPrompt, BannedPrompt,
                        <<"K","I","L","L">>, <<"s","k","i","l","l","s">>,
                        <<"h","a","t","e"," ","g","o","r","e">>,
                        <<"a","b","c">>, <<" ","a","b"," "," "," ">> },
                n \in {DEFAULT_MAX_PROMPT, 2, 3} }

        \* files: those of the upload requests, and the sizes and dimensions at the
        \* limits
        ImageArguments ==
            Files \cup
            { [GoodFile EXCEPT !.size = MAX_CONTENT_LENGTH],
              [GoodFile EXCEPT !.size = 1, !.decodable = FALSE],
              [GoodFile EXCEPT !.width = 64, !.height = 64],
              [GoodFile EXCEPT !.width = 64, !.height = 256],
              [GoodFile EXCEPT !.width = 257, !.height = 64],
              [GoodFile EXCEPT !.width = 2048, !.height = 2048],
              [GoodFile EXCEPT !.width = 600, !.height = 2049],
              [GoodFile EXCEPT !.width = 512, !.height = 63] }

        \* sides: around 8, 64, the target sizes and the largest side the upload
        \* accepts, and beyond
        Sides == {1, 7, 8, 9, 10, 63, 64, 93, 100, 128, 511, 512, 513, 1000, 1023, 1024,
                  1025, 2047, 2048, 3000}

        SizeArguments == {<<w, h, b>> : w \in Sides, h \in Sides, b \in BOOLEAN}
    IN
    {Application("validate_generation_parameters", a) : a \in ParameterArguments}
        \cup {Application("validate_prompt", a) : a \in PromptArguments}
        \cup {Application("validate_image", <<f>>) : f \in ImageArguments}
        \cup {Application(fn, a) :
                  fn \in {"preprocess_image", "resize_image", "process_image"},
                  a \in SizeArguments}

FunctionInit ==
    /\ call \in FunctionCalls
    /\ transformations = [t \in Slots |-> NoRow]
    /\ users = [u \in Users |-> 0]
    /\ files = {}
    /\ queue = {}
    /\ revoked = {}
    /\ exec = [t \in Slots |-> Idle]
    /\ notes = [t \in Slots |-> <<>>]
    /\ models = {}
    /\ nextId = 0
    /\ gallery = [i \in Items |-> NoRow]
    /\ nextItem = 0
    /\ creating = [i \in Items |-> Null]
    /\ viewing = {}
    /\ nextView = 0
    /\ nextToken = 0
    /\ resp = Response("none", 0)
    /\ storage = NewStorage(FALSE)
    /\ globals = NewGlobals

\* the call returns
Return(value) ==
    /\ ~call.done
    /\ call' = [call EXCEPT !.done = TRUE, !.result = value]
    /\ UNCHANGED <<pipelineVars, galleryVars, resp, storage, globals>>

FunctionNext ==
    \/ /\ call.fn = "validate_generation_parameters"
       /\ Return(validate_generation_parameters(
                     call.args[1], call.args[2], call.args[3], call.args[4]))
    \/ /\ call.fn = "validate_prompt"
       /\ Return(validate_prompt(call.args[1], call.args[2]))
    \/ /\ call.fn = "validate_image"
       /\ Return(validate_image(call.args[1]))
    \/ /\ call.fn = "preprocess_image"
       /\ Return(preprocess_image(call.args[1], call.args[2], PREPROCESS_MAX_SIZE,
                                  call.args[3]))
    \/ /\ call.fn = "resize_image"
       /\ Return(resize_image(call.args[1], call.args[2], PREPROCESS_MAX_SIZE,
                              call.args[3]))
    \/ /\ call.fn = "process_image"
       /\ Return(process_image_size(call.args[1], call.args[2], call.args[3]))

FunctionSpec == FunctionInit /\ [][FunctionNext]_vars

----------------------------------------------------------------------------
(* services/storage_service.py; URLs, keys and paths are strings *)

\* the bucket AWS_S3_BUCKET names, here bk, and AWS_REGION at its default
S3Host == "bk.s3.us-east-1.amazonaws.com/"

\* s.startswith(p)
StartsWith(s, p) == Len(s) >= Len(p) /\ SubSeq(s, 1, Len(p)) = p

\* s.split(sep)[1] -> <<TRUE, text>>, or <<FALSE, "">> for the IndexError when
\* sep does not occur
SplitSecond(s, sep) ==
    LET n == Len(sep)
        hits == {i \in 1..(Len(s) - n + 1) : SubSeq(s, i, i + n - 1) = sep}
        first == CHOOSE i \in hits : \A j \in hits : i <= j
        later == {j \in hits : j >= first + n}
    IN  IF hits = {} THEN <<FALSE, "">>
        ELSE IF later = {} THEN <<TRUE, SubSeq(s, first + n, Len(s))>>
        ELSE <<TRUE, SubSeq(s, first + n,
                            (CHOOSE j \in later : \A k \in later : j <= k) - 1)>>

RECURSIVE LowerString(_)
LowerString(s) ==
    IF Len(s) = 0 THEN ""
    ELSE LowerChar(SubSeq(s, 1, 1)) \o LowerString(SubSeq(s, 2, Len(s)))

\* lines 59-73: the name upload_image stores under; os.path.splitext splits at
\* the last dot that is not the first character
ImageName(filename) ==
    LET dots == {k \in 2..Len(filename) : SubSeq(filename, k, k) = "."}
        dot == CHOOSE k \in dots : \A j \in dots : j <= k
        root == IF dots = {} THEN filename ELSE SubSeq(filename, 1, dot - 1)
        ext == IF dots = {} THEN ""
               ELSE LowerString(SubSeq(filename, dot, Len(filename)))
    IN  IF ext \in {".jpg", ".jpeg", ".png", ".webp"} THEN filename
        ELSE root \o ".jpg"

\* os.path.join(self.local_storage_path, relative_path)
LocalPath(relative_path) ==
    IF StartsWith(relative_path, "/") THEN relative_path
    ELSE "uploads/" \o relative_path

\* the call made on the service and what it returned
Called(fn, args, result) == [fn |-> fn, args |-> args, done |-> TRUE, result |-> result]

\* lines 86-107, 116-134 (S3) and 140-152, 158-171 (local): the object is
\* written and its URL returned; ok: whether the backend takes the write
Store(fn, filename, folder, stored_as, ok) ==
    LET object == IF storage.use_s3 THEN folder \o "/" \o stored_as
                  ELSE LocalPath(folder) \o "/" \o stored_as
        url == IF storage.use_s3 THEN "https://" \o S3Host \o folder \o "/" \o stored_as
               ELSE "/uploads/" \o folder \o "/" \o stored_as
    IN  /\ Cardinality(storage.returned) < MaxObjects
        /\ UNCHANGED <<pipelineVars, galleryVars, resp, globals>>
        /\ IF ok
           THEN /\ storage' = [storage EXCEPT
                                  !.objects = @ \cup {object},
                                  !.returned = @ \cup {<<url, object>>}]
                /\ call' = Called(fn, <<filename, folder>>, url)
           ELSE /\ call' = Called(fn, <<filename, folder>>, [raised |-> TRUE])
                /\ UNCHANGED storage

\* lines 41-50
upload_file(filename, folder, ok) ==
    Store("upload_file", filename, folder, filename, ok)

\* lines 52-84
upload_image(filename, folder, ok) ==
    Store("upload_image", filename, folder, ImageName(filename), ok)

\* lines 180-192 and 206-208, 228-239 and 257-259: the object a URL is taken
\* to name, <<FALSE, "">> when the lookup ends in the except branch or the
\* else branch (on S3 the local branch raises AttributeError: there is no
\* local_storage_path)
Locate(url) ==
    IF storage.use_s3 /\ StartsWith(url, "https://")
    THEN SplitSecond(url, S3Host)
    ELSE IF ~storage.use_s3 /\ StartsWith(url, "/uploads/")
    THEN <<TRUE, LocalPath(SubSeq(url, 10, Len(url)))>>
    ELSE <<FALSE, "">>

\* a deletion that answers True without removing anything
delete_file_keeps(url, ok) ==
    /\ UNCHANGED <<pipelineVars, galleryVars, resp, storage, globals>>
    /\ call' = Called("delete_file", <<url>>, Locate(url)[1] /\ ok)

\* lines 177-223; ok: whether delete_object / os.remove goes through.
\* delete_object answers for a key that is not there as well; os.remove is
\* called on existing paths only
delete_file(url, ok) ==
    LET l == Locate(url)
        done == l[1] /\ ok /\ (storage.use_s3 \/ l[2] \in storage.objects)
    IN  /\ UNCHANGED <<pipelineVars, galleryVars, resp, globals>>
        /\ storage' = IF done THEN [storage EXCEPT !.objects = @ \ {l[2]}]
                      ELSE storage
        /\ call' = Called("delete_file", <<url>>, done)

\* lines 225-275; ok: whether head_object / os.stat goes through
get_file_info(url, ok) ==
    LET l == Locate(url)
    IN  /\ UNCHANGED <<pipelineVars, galleryVars, resp, storage, globals>>
        /\ call' = Called("get_file_info", <<url>>,
                          IF l[1] /\ ok /\ l[2] \in storage.objects
                          THEN [object |-> l[2]] ELSE Null)

\* file names: an extension upload_image keeps, in upper case, and one it
\* replaces by .jpg
FileNames == {"b.PNG", "c.gif"}

\* the URLs either backend returns for those names, and URLs with another
\* prefix: another local root, a bucket whose name ends in the service's,
\* another host
Urls ==
    {prefix \o key :
        prefix \in {"https://" \o S3Host, "/uploads/", "/files/",
                    "https://x" \o S3Host, "https://cdn.example/"},
        key \in {"originals/" \o n : n \in FileNames}
                 \cup {"results/" \o ImageName(n) : n \in FileNames}}

StorageInit ==
    /\ \E use_s3 \in BOOLEAN : storage = NewStorage(use_s3)
    /\ globals = NewGlobals
    /\ call = NoCall
    /\ transformations = [t \in Slots |-> NoRow]
    /\ users = [u \in Users |-> 0]
    /\ files = {}
    /\ queue = {}
    /\ revoked = {}
    /\ exec = [t \in Slots |-> Idle]
    /\ notes = [t \in Slots |-> <<>>]
    /\ models = {}
    /\ nextId = 0
    /\ gallery = [i \in Items |-> NoRow]
    /\ nextItem = 0
    /\ creating = [i \in Items |-> Null]
    /\ viewing = {}
    /\ nextView = 0
    /\ nextToken = 0
    /\ resp = Response("none", 0)

StorageNext ==
    \/ \E n \in FileNames, ok \in BOOLEAN : upload_file(n, "originals", ok)
    \/ \E n \in FileNames, ok \in BOOLEAN : upload_image(n, "results", ok)
    \/ \E url \in Urls, ok \in BOOLEAN : delete_file(url, ok)
    \/ \E url \in Urls, ok \in BOOLEAN : get_file_info(url, ok)

StorageSpec == StorageInit /\ [][StorageNext]_vars

----------------------------------------------------------------------------
(* Properties of the transformation pipeline *)

\* C1: once the status of a transformation is completed or failed, no step of
\* the task and no cancel request changes it again
TerminalStatusIsFinal ==
    [][\A t \in Slots :
          (Exists(t) /\ transformations[t].status \in {"completed", "failed"}
                     /\ transformations'[t] # NoRow)
              => transformations'[t].status = transformations[t].status]_vars

\* C2: no step moves a status back: from processing, completed or failed to
\* pending, or from completed or failed to processing
StatusNeverRegresses ==
    [][\A t \in Slots :
          (Exists(t) /\ transformations'[t] # NoRow)
              => LET old == transformations[t].status
                     new == transformations'[t].status
                 IN  /\ old # "pending" => new # "pending"
                     /\ old \in {"completed", "failed"} => new # "processing"]_vars

\* C3: a cancel request of the owner on a completed or failed record is
\* answered 400 and leaves the record as it is; on a pending or processing
\* record, once its commit goes through, it is answered 200 and the record is
\* the old one with status failed and error_message "Cancelled by user"
CancelContract ==
    [][\A u \in Users, t \in Slots, dbOk \in BOOLEAN :
          (/\ cancel_transformation(u, t, dbOk)
           /\ Exists(t)
           /\ transformations[t].user_id = u)
              => IF transformations[t].status \in {"completed", "failed"}
                 THEN /\ resp' = Response("cancel", 400)
                      /\ transformations' = transformations
                 ELSE dbOk =>
                      /\ resp' = Response("cancel", 200)
                      /\ transformations' =
                             [transformations EXCEPT
                                 ![t] = [transformations[t] EXCEPT
                                            !.status = "failed",
                                            !.error_message = "Cancelled by user"]]]_vars

\* a record cancelled while processing, and a later cancel of it refused
CancelledThenRefused ==
    /\ resp = Response("cancel", 400)
    /\ \E t \in Slots :
          /\ Exists(t)
          /\ transformations[t].status = "failed"
          /\ transformations[t].error_message = "Cancelled by user"
          /\ transformations[t].started_at

\* C4: when the except block of the task has run, the record exists with
\* status failed and error_message the exception's message, and the failed
\* notification with progress 0 is the last one of the task
FailureAlwaysRecorded ==
    [][\A t \in Slots, dbOk \in BOOLEAN :
          TaskFail(t, dbOk)
              => /\ transformations'[t] # NoRow
                 /\ transformations'[t].status = "failed"
                 /\ transformations'[t].error_message = exec[t].exc
                 /\ notes'[t] # <<>>
                 /\ notes'[t][Len(notes'[t])] = [status |-> "failed", progress |-> 0]]_vars

\* C5: an upload answered 400 leaves the records, the stored files and the
\* task queue as they were
RejectedUploadLeavesNoTrace ==
    [][(/\ resp' = Response("upload", 400)
        /\ \E u \in Users, r \in UploadRequests : upload_and_transform(u, r))
           => UNCHANGED <<transformations, files, queue>>]_vars

\* an upload refused for its parameters after an earlier one was accepted
UploadRefusedAfterAccepted ==
    /\ resp = Response("upload", 400)
    /\ nextId = 1
    /\ queue # {}

\* an accepted upload waiting for the worker, with a prompt and parameters the
\* task accepts and a model the service knows
Runnable(t) ==
    /\ Exists(t)
    /\ \E m \in queue :
          /\ m.task_id = t
          /\ validate_prompt(m.prompt, DEFAULT_MAX_PROMPT)[1]
          /\ validate_generation_parameters(
                 m.strength, m.guidance_scale, m.num_inference_steps, m.seed)[1]
          /\ m.model_name \in available_models

Completed(t) ==
    /\ Exists(t)
    /\ transformations[t].status = "completed"
    /\ transformations[t].result_url # Null
    /\ transformations[t].processing_time

----------------------------------------------------------------------------
(* Properties of the gallery *)

\* C7: no two gallery items have the same user and the same transformation
OneItemPerPair ==
    \A i, j \in Items :
        (/\ ItemExists(i) /\ ItemExists(j)
         /\ gallery[i].user_id = gallery[j].user_id
         /\ gallery[i].transformation_id = gallery[j].transformation_id)
            => i = j

\* C8: a create request with its required keys for a transformation the user
\* already has a gallery item of is answered 409, and the gallery items and the
\* pending inserts stay as they are
DuplicateCreateRefused ==
    [][\A u \in Users, d \in CreateBodies :
          (/\ CreateCheck(u, d)
           /\ d.transformation_id # 0 /\ d.title
           /\ \E i \in Items : /\ gallery[i] # NoRow
                                /\ gallery[i].user_id = u
                                /\ gallery[i].transformation_id = d.transformation_id)
              => /\ resp' = Response("create_item", 409)
                 /\ gallery' = gallery
                 /\ creating' = creating
                 /\ nextItem' = nextItem]_vars

\* a create request refused for the private item the user already has
DuplicateRefused ==
    /\ resp = Response("create_item", 409)
    /\ \E i \in Items : gallery[i] # NoRow /\ gallery[i].is_public # JTrue
    /\ \A i \in Items : creating[i] = Null

\* C9: a gallery item has a share_token exactly when its is_public is true
TokenIffPublic ==
    \A i \in Items :
        gallery[i] # NoRow
            => (gallery[i].share_token # Null <=> gallery[i].is_public = JTrue)

\* the one item created is public with the second token drawn: it was public,
\* then private, then public again
PublicAgainWithNewToken ==
    /\ nextItem = 1
    /\ gallery[1] # NoRow
    /\ gallery[1].is_public = JTrue
    /\ gallery[1].share_token = [token |-> 2]

\* C10: get_gallery_item answers 403 to a caller who is not the owner of a
\* private item and starts no view of it; get_shared_gallery_item starts views
\* of public items only and answers 404 to the token of none; the list of
\* get_public_gallery holds public items only
PrivateItemsStayPrivate ==
    [][/\ \A c \in Callers, i \in Items :
            (/\ get_gallery_item(c, i)
             /\ gallery[i] # NoRow
             /\ gallery[i].is_public # JTrue
             /\ gallery[i].user_id # c)
                => resp' = Response("get_item", 403) /\ viewing' = viewing
       /\ \A k \in Tokens :
            get_shared_gallery_item([token |-> k])
                => /\ \A v \in viewing' \ viewing :
                          gallery[v.item].is_public = JTrue
                   /\ (\A i \in Items : gallery[i] # NoRow =>
                          gallery[i].is_public # JTrue)
                          => resp' = [op |-> "get_shared", code |-> 404,
                                        token |-> [token |-> k]]
       /\ get_public_gallery
            => \A i \in resp'.items :
                   gallery[i] # NoRow /\ gallery[i].is_public = JTrue]_vars

\* the token issued while the item was public finds nothing once the item was
\* made private
StaleTokenFindsNothing ==
    /\ resp = [op |-> "get_shared", code |-> 404, token |-> [token |-> 1]]
    /\ nextToken >= 1
    /\ gallery[1] # NoRow
    /\ gallery[1].is_public = JFalse

----------------------------------------------------------------------------
(* Properties of the requests on records *)

\* C11: a status, result, cancel or delete request on a transformation, a
\* create request with its required keys naming it, issued by a user other than
\* its owner, and an update or delete request on a gallery item issued by a user
\* other than its owner, are answered 404 and leave the records, the pending
\* inserts and the stored files as they were: a step either is answered 404
\* and leaves them, or is no such request
NonOwnerGetsNotFound ==
    [][\/ /\ resp'.code = 404
          /\ UNCHANGED <<transformations, users, files, gallery, creating>>
       \/ /\ \A u \in Users, t \in Slots :
                (transformations[t] # NoRow /\ transformations[t].user_id # u)
                    => ~ \/ get_transform_status(u, t)
                         \/ get_transform_result(u, t)
                         \/ \E dbOk \in BOOLEAN : cancel_transformation(u, t, dbOk)
                         \/ \E dbOk \in BOOLEAN : delete_transformation(u, t, dbOk)
                         \/ \E d \in CreateBodies :
                                /\ d.transformation_id = t
                                /\ d.title
                                /\ CreateCheck(u, d)
          /\ \A u \in Users, i \in Items :
                (gallery[i] # NoRow /\ gallery[i].user_id # u)
                    => ~ \/ \E v \in PublicValues : update_gallery_item(u, i, v)
                         \/ delete_gallery_item(u, i)]_vars

\* a cancel request refused as not found while the record and a gallery item
\* of it exist
NonOwnerRefused ==
    /\ resp = Response("cancel", 404)
    /\ Exists(1)
    /\ gallery[1] # NoRow

\* C12: while the status of a record is not completed, a result request of its
\* owner is answered 400 without a download URL, and a create request of its
\* owner with the required keys is answered 400 and starts no insert; an insert
\* that adds a gallery item names a completed record
StatusPreconditions ==
    [][/\ \A u \in Users, t \in Slots :
            (/\ transformations[t] # NoRow
             /\ transformations[t].user_id = u
             /\ transformations[t].status # "completed")
                => /\ get_transform_result(u, t)
                        => /\ resp'.code = 400
                           /\ "download_url" \notin DOMAIN resp'
                   /\ \A d \in CreateBodies :
                        (d.transformation_id = t /\ d.title /\ CreateCheck(u, d))
                            => /\ resp' = Response("create_item", 400)
                               /\ UNCHANGED <<gallery, creating, nextItem>>
       /\ \A i \in Items, dbOk \in BOOLEAN :
            (CreateInsert(i, dbOk) /\ gallery'[i] # NoRow)
                => transformations[creating[i].transformation_id].status
                       = "completed"]_vars

\* the result of a cancelled record asked for by its owner
ResultRefusedWhenCancelled ==
    resp = [op |-> "result", code |-> 400, status |-> "failed"]

----------------------------------------------------------------------------
(* Properties of the engagement counters *)

\* C13: no step lowers the view_count of a gallery item
ViewCountNeverDecreases ==
    [][\A i \in Items :
          (gallery[i] # NoRow /\ gallery'[i] # NoRow)
              => gallery'[i].view_count >= gallery[i].view_count]_vars

----------------------------------------------------------------------------
(* Properties of the progress notifications *)

\* C14: in the notifications of one task execution the progress value never
\* decreases from one notification to the next
ProgressNeverDecreases ==
    \A t \in Slots :
        \A k \in 1..(Len(notes[t]) - 1) :
            notes[t][k].progress <= notes[t][k + 1].progress

----------------------------------------------------------------------------
(* Properties of the validators *)

\* C15: validate_generation_parameters returns valid exactly when strength is
\* in [0.1, 1.0], guidance_scale in [1.0, 20.0], num_inference_steps in
\* [10, 100] and seed is absent or an integer with 0 <= seed < 2^32
ParametersValidExactlyInRange ==
    (call.fn = "validate_generation_parameters" /\ call.done)
        => LET strength == call.args[1]
               guidance_scale == call.args[2]
               num_inference_steps == call.args[3]
               seed == call.args[4]
           IN  call.result[1] <=>
                   /\ 10 <= strength /\ strength <= 100
                   /\ 10 <= guidance_scale /\ guidance_scale <= 200
                   /\ 10 <= num_inference_steps /\ num_inference_steps <= 100
                   /\ \/ seed = [none |-> TRUE]
                      \/ /\ "float" \notin DOMAIN seed
                         \* 0 <= hi * 2^16 + lo < 2^32 with 0 <= lo < 2^16
                         /\ 0 <= seed.hi /\ seed.hi < 65536

\* the parameters at their upper limits with the seed 2^32 - 1, accepted
LargestParametersAccepted ==
    /\ call.fn = "validate_generation_parameters"
    /\ call.done
    /\ call.args = <<100, 200, 100, Seed(65535, 65535)>>
    /\ call.result[1]

\* C16, as stated: validate_prompt returns invalid exactly when the text is
\* empty or whitespace-only, or longer than max_length, or contains a denylist
\* word in any letter case
PromptInvalidExactlyWhenListed ==
    (call.fn = "validate_prompt" /\ call.done)
        => LET text == call.args[1]
               max_length == call.args[2]
           IN  ~call.result[1] <=>
                   \/ Strip(text) = <<>>
                   \/ Len(text) > max_length
                   \/ \E i \in 1..Len(banned_words) :
                          Contains(Lower(text), banned_words[i])

\* C16, amended: validate_prompt returns invalid exactly when the text is empty
\* or whitespace-only, or without its leading and trailing whitespace is longer
\* than max_length, or contains a denylist word in any letter case; a message
\* about inappropriate content names a denylist word the text contains
PromptInvalidExactlyWhenListedStripped ==
    (call.fn = "validate_prompt" /\ call.done)
        => LET text == call.args[1]
               max_length == call.args[2]
               found == {i \in 1..Len(banned_words) :
                            Contains(Lower(text), banned_words[i])}
           IN  /\ ~call.result[1] <=>
                      \/ Strip(text) = <<>>
                      \/ Len(Strip(text)) > max_length
                      \/ found # {}
               /\ (found # {} /\ Len(Strip(text)) <= max_length)
                      => /\ call.result[2] = "Prompt contains inappropriate content"
                         /\ \E i \in found : call.result[3] = banned_words[i]

\* the prompt KILL refused with the word kill named
UpperCaseWordNamed ==
    /\ call.fn = "validate_prompt"
    /\ call.done
    /\ call.args[1] = <<"K","I","L","L">>
    /\ call.result = <<FALSE, "Prompt contains inappropriate content",
                        <<"k","i","l","l">> >>

\* C17: validate_image rejects a file exactly when its size is zero or above
\* 16 MB, or it cannot be decoded, or its width or height is below 64 or above
\* 2048, or its larger side is more than 4 times its smaller side; when it
\* accepts, the read position of the stream is at the start
ImageRejectedExactlyWhenListed ==
    (call.fn = "validate_image" /\ call.done)
        => LET file == call.args[1]
               larger == IF file.width >= file.height THEN file.width
                         ELSE file.height
               smaller == IF file.width >= file.height THEN file.height
                          ELSE file.width
           IN  /\ ~call.result[1] <=>
                      \/ file.size = 0
                      \/ file.size > 16 * 1024 * 1024
                      \/ ~file.decodable
                      \/ file.width < 64 \/ file.height < 64
                      \/ file.width > 2048 \/ file.height > 2048
                      \/ larger > 4 * smaller
               /\ call.result[1] => call.result[3] = "start"

\* a 2048 x 512 image, of ratio 4, accepted with the stream at its start
WidestImageAccepted ==
    /\ call.fn = "validate_image"
    /\ call.done
    /\ call.args[1].width = 2048
    /\ call.args[1].height = 512
    /\ call.result = <<TRUE, "Valid image", "start">>

----------------------------------------------------------------------------
(* Properties of the preprocessing *)

\* C18: for an input of width other than its height, preprocessing yields an
\* image whose width and height are multiples of 8 and whose sides are within
\* one unit of rounding, 8 pixels, of a scaling of the input:
\* |height' * width - width' * height| <= 8 * max(width, height)
PreprocessKeepsShape ==
    (/\ call.fn \in {"preprocess_image", "resize_image", "process_image"}
     /\ call.done
     /\ call.args[1] # call.args[2])
        => LET w == call.args[1]
               h == call.args[2]
               r == call.result
               d == r.height * w - r.width * h
           IN  /\ ~r.raised
               /\ r.width > 0 /\ r.height > 0
               /\ r.width % 8 = 0 /\ r.height % 8 = 0
               /\ (IF d >= 0 THEN d ELSE 0 - d) <= 8 * (IF w >= h THEN w ELSE h)

\* the same for the inputs whose sides are 64 at least and whose larger side
\* is at most 4 times the smaller one
PreprocessKeepsShapeOfValidImages ==
    (/\ call.fn \in {"preprocess_image", "resize_image", "process_image"}
     /\ call.done
     /\ call.args[1] # call.args[2]
     /\ call.args[1] >= 64 /\ call.args[2] >= 64
     /\ call.args[1] <= 4 * call.args[2] /\ call.args[2] <= 4 * call.args[1])
        => LET w == call.args[1]
               h == call.args[2]
               r == call.result
               d == r.height * w - r.width * h
           IN  /\ ~r.raised
               /\ r.width > 0 /\ r.height > 0
               /\ r.width % 8 = 0 /\ r.height % 8 = 0
               /\ (IF d >= 0 THEN d ELSE 0 - d) <= 8 * (IF w >= h THEN w ELSE h)

----------------------------------------------------------------------------
(* Properties of the storage service *)

\* C19: for every URL an upload of the service has returned, while the object
\* it was returned for is stored get_file_info answers with the information of
\* that object and delete_file removes that object and no other and answers
\* True, and once it is not stored get_file_info answers None; each when the
\* backend call goes through
StorageRoundTrip ==
    [][\A p \in storage.returned :
          LET url == p[1]
              object == p[2]
          IN  /\ get_file_info(url, TRUE)
                    => call'.result = IF object \in storage.objects
                                      THEN [object |-> object]
                                      ELSE [none |-> TRUE]
              /\ (delete_file(url, TRUE) /\ object \in storage.objects)
                    => /\ call'.result = TRUE
                       /\ storage'.objects = storage.objects \ {object}
                       /\ storage'.returned = storage.returned]_vars

\* on S3, the information asked for by the URL of an image stored under a
\* replaced extension and deleted since: None
DeletedImageHasNoInfo ==
    /\ storage.use_s3
    /\ call.fn = "get_file_info"
    /\ call.result = Null
    /\ <<call.args[1], "results/c.jpg">> \in storage.returned
    /\ "results/c.jpg" \notin storage.objects

\* C20: delete_file and get_file_info given a URL that does not start with the
\* prefix of the URLs the service returns answer False and None, raise nothing
\* and leave the stored objects as they are
ForeignUrlRefused ==
    [][\A url \in Urls, ok \in BOOLEAN :
          ~ StartsWith(url, IF storage.use_s3
                            THEN "https://bk.s3.us-east-1.amazonaws.com/"
                            ELSE "/uploads/")
              => /\ delete_file(url, ok)
                    => call'.result = FALSE /\ storage' = storage
                 /\ get_file_info(url, ok)
                    => call'.result = [none |-> TRUE] /\ storage' = storage]_vars

----------------------------------------------------------------------------
(* Properties of the error answers *)

\* C22: an upload, cancel or delete request answered with an error leaves the
\* records, the stored files, the task queue and the revoked tasks as they
\* were before the request
ErrorAnswerLeavesNoTrace ==
    [][\/ UNCHANGED <<transformations, gallery, files, queue, revoked>>
       \/ resp'.code < 400
       \/ ~ \/ \E u \in Users, r \in PipelineRequests : upload_and_transform(u, r)
            \/ \E u \in Users, t \in Slots, dbOk \in BOOLEAN :
                   cancel_transformation(u, t, dbOk)
            \/ \E u \in Users, t \in Slots, dbOk \in BOOLEAN :
                   delete_transformation(u, t, dbOk)]_vars

----------------------------------------------------------------------------
(* Properties of the hand-over from the request to the worker *)

----------------------------------------------------------------------------
(* Properties of the task's validation *)

\* C24: an execution whose prompt or generation parameters are invalid takes
\* no step of the model load, the decode, the generation, the result upload
\* or the success write, changes neither the usage counter nor the model cache
\* nor the stored files, and ends in the except block, which leaves the record
\* failed and the notifications of the execution as: processing 10, failed 0
InvalidInputFailsTask ==
    [][\A t \in Slots :
          LET m == exec[t].msg IN
          (/\ m # NoMessage
           /\ \/ ~PromptVerdicts[m.prompt][1]
              \/ ~validate_generation_parameters(
                      m.strength, m.guidance_scale, m.num_inference_steps,
                      m.seed)[1])
              => /\ \A a, b \in BOOLEAN :
                       ~ \/ TaskLoadModel(t, a)
                         \/ TaskDecode(t, a)
                         \/ TaskGenerate(t, a, b)
                         \/ TaskUpload(t, a)
                         \/ TaskReadUser(t)
                         \/ TaskCommit(t, a)
                 /\ (exec[t].pc = "validate" /\ exec'[t] # exec[t])
                       => /\ UNCHANGED <<users, models, files, notes>>
                          /\ exec'[t].pc = "fail"
                          /\ exec'[t].exc \in {"Invalid prompt", "Invalid parameters"}
                 /\ \A dbOk \in BOOLEAN :
                       (/\ TaskFail(t, dbOk)
                        /\ exec[t].exc \in {"Invalid prompt", "Invalid parameters"})
                           => /\ UNCHANGED <<users, models, files>> /\ exec'[t].pc = "done"
                              /\ notes'[t] = <<Note("processing", 10), Note("failed", 0)>>
                              /\ transformations'[t] # NoRow
                              /\ transformations'[t].status = "failed"]_vars

\* the same, with the record failed once the write of the except block goes
\* through
InvalidInputFailsTaskWhenWritten ==
    [][\A t \in Slots :
          LET m == exec[t].msg IN
          (/\ m # NoMessage
           /\ \/ ~PromptVerdicts[m.prompt][1]
              \/ ~validate_generation_parameters(
                      m.strength, m.guidance_scale, m.num_inference_steps,
                      m.seed)[1])
              => /\ \A a, b \in BOOLEAN :
                       ~ \/ TaskLoadModel(t, a)
                         \/ TaskDecode(t, a)
                         \/ TaskGenerate(t, a, b)
                         \/ TaskUpload(t, a)
                         \/ TaskReadUser(t)
                         \/ TaskCommit(t, a)
                 /\ (exec[t].pc = "validate" /\ exec'[t] # exec[t])
                       => /\ UNCHANGED <<users, models, files, notes>>
                          /\ exec'[t].pc = "fail"
                          /\ exec'[t].exc \in {"Invalid prompt", "Invalid parameters"}
                 /\ \A dbOk \in BOOLEAN :
                       (/\ TaskFail(t, dbOk)
                        /\ exec[t].exc \in {"Invalid prompt", "Invalid parameters"})
                           => /\ UNCHANGED <<users, models, files>> /\ exec'[t].pc = "done"
                              /\ notes'[t] = <<Note("processing", 10), Note("failed", 0)>>
                              /\ dbOk => transformations'[t].status = "failed"]_vars

----------------------------------------------------------------------------
(* Properties of the gallery's references *)

----------------------------------------------------------------------------
(* Properties of the columns of a record *)

\* C28: in every state a record has a result_url exactly when its status is
\* completed and an error_message exactly when its status is failed
ResultAndErrorMatchStatus ==
    \A t \in Slots :
        Exists(t)
            => /\ transformations[t].result_url # Null
                     <=> transformations[t].status = "completed"
               /\ transformations[t].error_message # None
                     <=> transformations[t].status = "failed"

----------------------------------------------------------------------------
(* Properties of the usage counter *)

\* C25: in every state total_transformations of the user is the number of
\* executions on the user's jobs that have written status completed
UsageCountsCompletedExecutions ==
    users["u1"] = Cardinality({t \in DOMAIN exec :
                                  exec[t].pc = "done" /\ exec[t].failure = None})

----------------------------------------------------------------------------
(* Properties of the uploaded stream *)

\* C29: an upload answered 202 has recorded the number of bytes of the
\* uploaded file as original_size of the new record and has passed the whole
\* file, all of its bytes, to the task as image_data
UploadReadsWholeFile ==
    [][\/ resp'.code # 202
       \/ \A u \in Users, r \in UploadRequests :
             upload_and_transform(u, r)
                 => /\ transformations'[nextId'].original_size = r.file.size
                    /\ \A m \in queue' \ queue : m.image_data = r.file.size]_vars

----------------------------------------------------------------------------
(* Properties of the diffusion service *)

\* C21: every generate_image call returns, with an image or with None, and
\* the release of the accelerator memory has run before it returns
GenerateAlwaysReleases ==
    [][call'.fn = "generate_image"
          => /\ call'.done
             /\ call'.result.image \in BOOLEAN
             /\ call'.result.released]_vars

\* C26: a load_model or generate_image call adds no model but the one it
\* names and removes none; unload_model removes no model but the one it names;
\* load_model for a cached model returns True and leaves the cache as it is,
\* whether or not a load would go through; the cache starts empty
CacheKeepsLoadedModels ==
    [][/\ call = NoCall => models = {}
       /\ call'.fn \in {"load_model", "generate_image"}
             => /\ models \subseteq models'
                /\ models' \subseteq models \cup {call'.args[1]}
       /\ call'.fn = "unload_model"
             => models' = models \ {call'.args[1]}
       /\ \A m \in models, ok \in BOOLEAN :
             /\ load_model(models, m, ok) = <<TRUE, models>>
             /\ generate_image(models, m, ok, TRUE)[2] = models]_vars

\* a second model was loaded, by a generate_image call that then failed, and
\* the first stayed in the cache
TwoModelsCached ==
    /\ call.fn = "generate_image"
    /\ ~call.result.image
    /\ call.args[1] \in models
    /\ Cardinality(models) = 2

----------------------------------------------------------------------------
(* Properties of the standalone application *)

\* C30: in every state current_model names a model only while
\* current_pipeline holds the pipeline loaded for it, and a load_model call
\* and a process_image call for any available model succeed when the load
\* and the inference go through
GlobalsStayUsable ==
    /\ globals.current_model # None
          => globals.current_pipeline = globals.current_model
    /\ \A m \in globals.available_models :
          /\ app_load_model(globals, m, TRUE)[1] = m
          /\ app_process_image(globals, m, TRUE, TRUE)[1]

====
